---------------------------- MODULE Spec2Model ----------------------------
(***************************************************************************)
(* Model of the go2scope BigTIFF dataset storage engine:                   *)
(*   - G2SBigTiffDataset  (DeviceAdapters/go2scope/G2SBigTiffDataset.cpp)  *)
(*   - G2SBigTiffStorage  (DeviceAdapters/go2scope/G2SBigTiffStorage.cpp)  *)
(*   - the coordinate helper calcCoordsOptimized of the storage tests      *)
(*                                                                         *)
(* Three specifications share the variables:                               *)
(*   SpecCalc  the coordinate <-> index arithmetic on drawn inputs         *)
(*   Spec      one G2SBigTiffDataset object used directly                  *)
(*   SpecSvc   the G2SBigTiffStorage service and its descriptor cache      *)
(***************************************************************************)
EXTENDS Integers, Sequences, FiniteSets, TLC

VARIABLES
    calc,    \* SpecCalc: the drawn shape / coordinate and the results computed so far;
             \* SpecList: the drawn folder and the list computed for it
    ds,      \* Spec: the G2SBigTiffDataset object (all of its members)
    disk,    \* the file system: dataset directories and their chunk files
    ret,     \* outcome of the last call: what the caller observes
    written, \* ghost, per directory: the images addImage accepted, in call order, the
             \* configuration its dataset had when a write session closed it, and how
             \* many images it held then
    cache,   \* SpecSvc: G2SBigTiffStorage::cache (handle -> G2SStorageEntry)
    threads  \* SpecThreads: the service calls in flight, one per client thread

vars == <<calc, ds, disk, ret, written, cache, threads>>

\* no client thread is inside a service call
NoThreads == [phase |-> "idle"]

(***************************************************************************)
(* Bounds of the model                                                     *)
(***************************************************************************)
\* largest axis size drawn for the arithmetic specification
MaxAxis == 4
\* largest coordinate entry drawn for the arithmetic specification
MaxCoord == 4

(***************************************************************************)
(* Sequence helpers                                                        *)
(***************************************************************************)
SeqsUpTo(S, n) == UNION {[1..k -> S] : k \in 0..n}

Max2(a, b) == IF a >= b THEN a ELSE b

\* the single element of a one-element set; Once({f(x) : x \in {e}}) is f(e) with e
\* evaluated once
Once(S) == CHOOSE x \in S : TRUE

(***************************************************************************)
(* G2SBigTiffDataset::calcImageIndex                                       *)
(* shape = [a0 .. a(n-1), height, width]; sequences are 1-based here, so   *)
(* the C++ index i is i+1 below.                                           *)
(***************************************************************************)
\* number of index axes: shape.size() - 2
IndexAxisCount(shape) == Len(shape) - 2

\* "Validate coordinates count": coord.size() > shape.size() - 2
calcTooManyCoords(shape, coord) == Len(coord) > IndexAxisCount(shape)

\* "Validate ranges for all axis (except the first)": for i = 1 .. coord.size()-1
calcRangeError(shape, coord) ==
    \E i \in 2..Len(coord) : coord[i] >= shape[i]

\* the inner loop: for(j = i + 1; j < shape.size() - 2; j++) sum *= shape[j]
RECURSIVE strideLoop(_, _, _)
strideLoop(shape, j, sum) ==
    IF j > IndexAxisCount(shape) THEN sum
    ELSE strideLoop(shape, j + 1, sum * shape[j])

\* mutant: the stride of axis i also multiplies in axis i itself
calcStrideMutOwnAxis(shape, i) == strideLoop(shape, i, 1)

\* std::uint32_t sum = 1; inner loop for the C++ axis i
calcStride(shape, i) == strideLoop(shape, i + 1, 1)

\* the outer loop: for(i = 0; i < coord.size(); i++) { if(coord[i] == 0) continue; ... }
RECURSIVE indexLoop(_, _, _, _)
indexLoop(shape, coord, i, ind) ==
    IF i > Len(coord) THEN ind
    ELSE IF coord[i] = 0 THEN indexLoop(shape, coord, i + 1, ind)
    ELSE indexLoop(shape, coord, i + 1, ind + calcStride(shape, i) * coord[i])

\* mutant: the loop forgets the last coordinate
calcImageIndexMutDropLast(shape, coord) ==
    IF calcTooManyCoords(shape, coord) \/ calcRangeError(shape, coord)
    THEN [ok |-> FALSE, ind |-> 0]
    ELSE [ok |-> TRUE,
          ind |-> indexLoop(shape, SubSeq(coord, 1, Max2(Len(coord) - 1, 0)), 1, 0)]

\* result: ok = FALSE stands for the std::runtime_error thrown
calcImageIndex(shape, coord) ==
    IF calcTooManyCoords(shape, coord) \/ calcRangeError(shape, coord)
    THEN [ok |-> FALSE, ind |-> 0]
    ELSE [ok |-> TRUE, ind |-> indexLoop(shape, coord, 1, 0)]

(***************************************************************************)
(* Tests/G2SStorageTest/Util.cpp : calcCoordsOptimized                     *)
(* ret has shape.size() entries; the two pixel entries stay 0.             *)
(***************************************************************************)
RECURSIVE coordsLoop(_, _, _, _, _)
coordsLoop(ind, shape, j, fx, acc) ==
    IF j > IndexAxisCount(shape) THEN acc
    ELSE LET sum == strideLoop(shape, j + 1, 1)
             ix  == (ind - fx) \div sum
         IN  coordsLoop(ind, shape, j + 1, fx + ix * sum, [acc EXCEPT ![j] = ix])

calcCoordsOptimized(ind, shape) ==
    coordsLoop(ind, shape, 1, 0, [k \in 1..Len(shape) |-> 0])

(***************************************************************************)
(* SpecCalc: draw a shape and a coordinate, apply calcImageIndex, then     *)
(* apply the inverse to the index obtained.                                *)
(***************************************************************************)
\* pixel plane used by the arithmetic specification (height, width)
CalcPlane == <<16, 16>>

CalcShapes == {ia \o CalcPlane : ia \in SeqsUpTo(0..MaxAxis, 3)}

CalcCoords == SeqsUpTo(0..MaxCoord, 3)

NoCalc == [st |-> "off", shape |-> <<>>, coord |-> <<>>, ok |-> FALSE, ind |-> 0, back |-> <<>>]

\* every stride used by the inverse is non-zero (its division is defined)
InverseDefined(shape) == \A j \in 2..IndexAxisCount(shape) : shape[j] > 0

CalcIndexStep ==
    /\ calc.st = "drawn"
    /\ LET r == calcImageIndex(calc.shape, calc.coord)
       IN  calc' = [calc EXCEPT !.st = "indexed", !.ok = r.ok, !.ind = r.ind]
    /\ UNCHANGED <<ds, disk, ret, written, cache, threads>>

CalcInverseStep ==
    /\ calc.st = "indexed"
    /\ calc.ok
    /\ InverseDefined(calc.shape)
    /\ calc' = [calc EXCEPT !.st = "inverted",
                            !.back = calcCoordsOptimized(calc.ind, calc.shape)]
    /\ UNCHANGED <<ds, disk, ret, written, cache, threads>>

(***************************************************************************)
(* Reference arithmetic the coordinate algebra is compared with            *)
(***************************************************************************)
\* the index axes of a shape: shape without the two pixel axes
IndexAxes(shape) == SubSeq(shape, 1, IndexAxisCount(shape))

\* a coordinate padded with zeros to the number of index axes
PadCoord(shape, coord) ==
    [i \in 1..IndexAxisCount(shape) |-> IF i <= Len(coord) THEN coord[i] ELSE 0]

\* row-major index by Horner's rule: ((c0 * a1 + c1) * a2 + c2) ...
RECURSIVE RowMajor(_, _, _, _)
RowMajor(axes, c, i, acc) ==
    IF i > Len(axes) THEN acc
    ELSE RowMajor(axes, c, i + 1, (IF i = 1 THEN 0 ELSE acc * axes[i]) + c[i])

\* a coordinate the coordinate algebra calls valid: not longer than the index axes,
\* every non-leading entry below its axis size
ValidCoord(shape, coord) ==
    /\ Len(coord) <= IndexAxisCount(shape)
    /\ \A i \in 2..Len(coord) : coord[i] < shape[i]

FullLength(shape, coord) == Len(coord) = IndexAxisCount(shape)

(***************************************************************************)
(* Bounds and input sets of the dataset specification                      *)
(***************************************************************************)
\* most images a run appends to one dataset
MaxImages == 2
\* dataset directories on disk: 1 is <stem>.g2s, k+1 is <stem>_k.g2s
MaxDirs == 1

\* character codes
ChDash == 45
ChDigit0 == 48
ChUpperF == 70
\* a digit, and the first character behind the upper-case hexadecimal letters
Ch1 == ChDigit0 + 1
ChG == ChUpperF + 1

Rep(c, n) == [k \in 1..n |-> c]

\* dashless / dashed spelling of a UUID made of one repeated digit
UidPlain(c) == Rep(c, 32)
UidDashed(c) == Rep(c, 8) \o <<ChDash>> \o Rep(c, 4) \o <<ChDash>> \o Rep(c, 4)
                \o <<ChDash>> \o Rep(c, 4) \o <<ChDash>> \o Rep(c, 12)

\* strings handed to setUID: empty, valid dashless, valid dashed, bad digit, bad length
UidInputs == {<<>>, UidPlain(Ch1), UidDashed(Ch1), UidPlain(ChG), Rep(Ch1, 5)}

\* shapes handed to setShape / Create
ShapeInputs == {<<2, 2, 1, 1>>, <<1>>}

\* (bits per sample, samples per pixel) handed to setPixelFormat
FormatInputs == {<<8, 1>>, <<16, 2>>}

\* chunk sizes handed to create (0 disables chunking)
ChunkInputs == {0, 1}

\* summary metadata strings and the length of a string in bytes
MetaInputs == {"", "m1"}
StrSize(s) == IF s = "" THEN 0 ELSE 2

\* (pixel buffer, image metadata) pairs handed to addImage; a buffer is its content id
\* and its length in bytes
ImageInputs == {<<[id |-> 1, len |-> 3], "">>, <<[id |-> 2, len |-> 4], "m1">>}

\* coordinates handed to getImage / getImageMetadata (<<>> reads sequentially)
CoordInputs == {<<>>, <<0, 0>>, <<0, 1>>}

\* direct I/O flags handed to create / load
DirectIoInputs == {FALSE}

(***************************************************************************)
(* On-disk layout constants                                                *)
(***************************************************************************)
\* tag counts of an IFD without / with the image metadata tag
G2STIFF_TAG_COUNT_NOMETA == 8
G2STIFF_TAG_COUNT == 9
\* size of the chunk header, which is also the offset of the first IFD
G2STIFF_HEADER_SIZE == 512
\* device sector size probed for direct I/O
SectorSize == 512
\* BigTIFF: tag count field, IFD entry, next-IFD field (bytes)
BigTagCountBytes == 8
BigEntryBytes == 20
BigOffsetBytes == 8

AlignUp(n, a) == IF n % a = 0 THEN n ELSE n + (a - (n % a))

(***************************************************************************)
(* The file system                                                         *)
(***************************************************************************)
EmptyFile == [hdr |-> <<>>, frames |-> <<>>, tail |-> <<>>, size |-> 0]
NoDir == [exists |-> FALSE, files |-> <<>>]

\* header template formed by open(create): first-IFD pointer set, the rest blank
BlankHeader == [uid |-> <<>>, shape |-> <<>>, chunksize |-> 0, chunkindex |-> 0,
                firstifd |-> G2STIFF_HEADER_SIZE]

(***************************************************************************)
(* The G2SBigTiffDataset object.  The members the constructor sets are the *)
(* dataset's own; header .. configset are the I/O members the unconverted  *)
(* methods (addImage, getImage, getImageMetadata) use: they are the state  *)
(* of the active chunk's stream, made afresh by create and load.           *)
(***************************************************************************)
FreshStream ==
    [header |-> BlankHeader, writepos |-> 0, readpos |-> 0, currpos |-> 0,
     lastifd |-> <<>>, lastifdpos |-> 0, currentifd |-> <<>>,
     currentifdpos |-> G2STIFF_HEADER_SIZE, nextifdpos |-> G2STIFF_HEADER_SIZE,
     currentimage |-> 0, ifdcache |-> <<>>, configset |-> FALSE]

\* a chunk stream object is known by the file it was made for; NoChunk is the null pointer
NoChunk == [dir |-> 0, file |-> 0]

\* G2SBigTiffDataset::G2SBigTiffDataset()
NewDataset ==
    [dspath |-> 0, datasetuid |-> <<>>, bitdepth |-> 8, samples |-> 1,
     imgcounter |-> 0, chunksize |-> 0, directIo |-> FALSE, writemode |-> FALSE,
     shape |-> <<>>, metadata |-> <<>>, datachunks |-> <<>>, activechunk |-> NoChunk,
     chunkopen |-> FALSE, io |-> FreshStream]

\* outcome of a call: d / fs are the object and the disk after it, ok = FALSE is a throw
Out(d, fs, ok, val) == [d |-> d, fs |-> fs, ok |-> ok, val |-> val]
Throw(d, fs) == Out(d, fs, FALSE, "error")

\* what the caller of the last operation observed
NoRet == [op |-> "none", ok |-> TRUE, code |-> "", handle |-> <<>>, pix |-> 0, str |-> "",
          coord |-> <<>>, path |-> 0, arg |-> <<>>, val |-> <<>>]
Ret(o, r, pix, str) ==
    [NoRet EXCEPT !.op = o, !.ok = r.ok, !.pix = IF r.ok THEN pix ELSE 0,
                  !.str = IF r.ok THEN str ELSE ""]

isOpen(d) == d.datachunks # <<>> /\ d.chunkopen

\* the file of the active chunk
ActiveFile(d, fs) == fs[d.activechunk.dir].files[d.activechunk.file]
PutActiveFile(d, fs, f) ==
    [fs EXCEPT ![d.activechunk.dir].files[d.activechunk.file] = f]


(***************************************************************************)
(* Stream primitives used by the dataset's I/O methods                     *)
(***************************************************************************)
seek(d, pos) == [d EXCEPT !.io.currpos = pos]
moveReadCursor(d, pos) == [d EXCEPT !.io.readpos = pos]
moveWriteCursor(d, pos) == [d EXCEPT !.io.writepos = pos]

\* commit(buff, len): len bytes go to the file at the file cursor; the file cursor and
\* the write cursor end behind them
commitCursors(d, len) ==
    [d EXCEPT !.io.currpos = d.io.currpos + len, !.io.writepos = d.io.currpos + len]
commitGrow(f, d, len) == [f EXCEPT !.size = Max2(@, d.io.currpos + len)]

\* fetch(buff, len): the file cursor and the read cursor end behind the bytes read
fetchCursors(d, len) ==
    [d EXCEPT !.io.currpos = d.io.currpos + len, !.io.readpos = d.io.currpos + len]

FrameIndexAt(f, pos) == {k \in 1..Len(f.frames) : f.frames[k].pos = pos}
FrameAt(f, pos) == f.frames[CHOOSE k \in FrameIndexAt(f, pos) : TRUE]

getTagCount(meta) == IF meta = "" THEN G2STIFF_TAG_COUNT_NOMETA ELSE G2STIFF_TAG_COUNT
IfdBytes(tagcount) == BigTagCountBytes + tagcount * BigEntryBytes + BigOffsetBytes
AlignSize(d) == IF d.directIo THEN SectorSize ELSE 2
MetaBytes(meta) == IF meta = "" THEN 0 ELSE StrSize(meta) + 1

\* calcDescSize: bytes of the image descriptor (IFD, then the NUL-terminated metadata),
\* rounded up to the alignment boundary
calcDescSize(d, metabytes, tagcount) ==
    AlignUp(IfdBytes(tagcount) + metabytes, AlignSize(d))

\* BigTIFF container limit (the largest integer TLC represents stands for it)
getMaxFileSize == 2147483647

\* writeDatasetUid / writeShapeInfo: header patches, legal only until the header has
\* been committed with the first image
writeDatasetUid(d, fs, uid) ==
    IF d.io.configset THEN Throw(d, fs)
    ELSE Out([d EXCEPT !.io.header.uid = uid], fs, TRUE, "")

writeShapeInfo(d, fs, shape, chunksize) ==
    IF d.io.configset THEN Throw(d, fs)
    ELSE Out([d EXCEPT !.io.header.shape = shape, !.io.header.chunksize = chunksize],
             fs, TRUE, "")

\* loadIFD(off): read the IFD at off; it becomes the current IFD and its next-IFD
\* field the next IFD position
loadIFD(d, fs, off) ==
    LET f == ActiveFile(d, fs)
    IN  IF FrameIndexAt(f, off) = {} THEN Throw(d, fs)
        ELSE LET ifd == FrameAt(f, off)
                 d1  == fetchCursors(seek(d, off), ifd.size)
             IN  Out([d1 EXCEPT !.io.currentifd = <<ifd>>, !.io.currentifdpos = off,
                                !.io.nextifdpos = ifd.next],
                     fs, TRUE, "")

loadNextIFD(d, fs) == loadIFD(d, fs, d.io.nextifdpos)

\* appendIFD(len, meta): chain the cached last IFD to the new frame, then write the new
\* descriptor at the write position W; it becomes the last IFD
appendIFD(d, fs, len, meta) ==
    LET W    == d.io.writepos
        f    == ActiveFile(d, fs)
        desc == calcDescSize(d, MetaBytes(meta), getTagCount(meta))
        ifd  == [pos |-> W, size |-> desc, tagcount |-> getTagCount(meta), next |-> 0,
                 bits |-> d.bitdepth, samples |-> d.samples,
                 dataoffset |-> W + desc, datalen |-> len,
                 metaoffset |-> IF meta = "" THEN 0 ELSE W + IfdBytes(getTagCount(meta)),
                 metalen |-> MetaBytes(meta), meta |-> meta, pix |-> 0]
        chained == [k \in 1..Len(f.frames) |->
                       IF d.io.lastifd # <<>> /\ f.frames[k].pos = d.io.lastifdpos
                       THEN [f.frames[k] EXCEPT !.next = W] ELSE f.frames[k]]
        f1   == commitGrow([f EXCEPT !.frames = Append(chained, ifd)], d, desc)
        d1   == commitCursors(d, desc)
    IN  Out([d1 EXCEPT !.io.lastifd = <<ifd>>, !.io.lastifdpos = W],
            PutActiveFile(d, fs, f1), TRUE, "")

\* commit(buff, len) of the pixel strip: the frame whose strip starts at the file cursor
\* receives the buffer's content
commitPixels(d, fs, buff) ==
    LET f  == ActiveFile(d, fs)
        f1 == [f EXCEPT !.frames = [k \in 1..Len(f.frames) |->
                   IF f.frames[k].dataoffset = d.io.currpos
                   THEN [f.frames[k] EXCEPT !.pix = buff.id] ELSE f.frames[k]]]
    IN  Out(commitCursors(d, buff.len), PutActiveFile(d, fs, commitGrow(f1, d, buff.len)),
            TRUE, "")

\* commit of n padding bytes
commitPadding(d, fs, n) ==
    Out(commitCursors(d, n), PutActiveFile(d, fs, commitGrow(ActiveFile(d, fs), d, n)),
        TRUE, "")

\* fetch of the strip at [off, off + len): the content id stored there, 0 for anything else
fetchPixels(f, off, len) ==
    LET hit == {k \in 1..Len(f.frames) :
                   f.frames[k].dataoffset = off /\ f.frames[k].datalen = len}
    IN  IF hit = {} THEN 0 ELSE f.frames[CHOOSE k \in hit : TRUE].pix

(***************************************************************************)
(* G2SBigTiffDataset operations, as functions of the dataset object d and  *)
(* the file system fs; the result is Out(d', fs', ok, val), ok = FALSE     *)
(* standing for a thrown exception                                         *)
(***************************************************************************)
\* metadata buffer of a string: its characters and the terminating NUL
MetaBuffer(meta) == IF meta = "" THEN <<>> ELSE <<meta, "NUL">>

\* first directory name not taken, counting up from the requested one
FreeDirs(fs, path) == {k \in DOMAIN fs : k >= path /\ ~fs[k].exists}
\* mutant: the last free name is taken instead of the first
FirstFreeMutLast(fs, path) ==
    CHOOSE k \in FreeDirs(fs, path) : \A j \in FreeDirs(fs, path) : k >= j

FirstFree(fs, path) == CHOOSE k \in FreeDirs(fs, path) : \A j \in FreeDirs(fs, path) : k <= j

\* addImage, header branch: commit the header of an empty file
commitHeader(d, fs) ==
    LET f  == ActiveFile(d, fs)
        f1 == commitGrow([f EXCEPT !.hdr = <<d.io.header>>], d, G2STIFF_HEADER_SIZE)
        d1 == commitCursors(d, G2STIFF_HEADER_SIZE)
    IN  Out([d1 EXCEPT !.io.lastifdpos = d.io.header.firstifd, !.io.configset = TRUE],
            PutActiveFile(d, fs, f1), TRUE, "")

\* mutant: the last IFD is patched but the cursors stay behind the patched IFD
updateLastIFDMutNoRestore(d, fs) ==
    LET f == ActiveFile(d, fs)
    IN  IF FrameIndexAt(f, d.io.lastifdpos) = {} THEN Throw(seek(d, d.io.lastifdpos), fs)
        ELSE LET old == FrameAt(f, d.io.lastifdpos)
                 ifd == IF old.next = 0 THEN [old EXCEPT !.next = d.io.writepos] ELSE old
                 f1  == [f EXCEPT !.frames = [k \in 1..Len(f.frames) |->
                            IF f.frames[k].pos = d.io.lastifdpos THEN ifd ELSE f.frames[k]]]
                 d1  == [d EXCEPT !.io.lastifd = <<ifd>>,
                                  !.io.currpos = d.io.lastifdpos + ifd.size,
                                  !.io.readpos = d.io.lastifdpos + ifd.size,
                                  !.io.writepos = d.io.lastifdpos + ifd.size]
             IN  Out(d1, PutActiveFile(d, fs, f1), TRUE, "")

\* addImage, read-mode branch: load the last IFD, point its next-IFD field at the write
\* position if it is still 0, write it back, restore the cursors
updateLastIFD(d, fs) ==
    LET f == ActiveFile(d, fs)
    IN  IF FrameIndexAt(f, d.io.lastifdpos) = {} THEN Throw(seek(d, d.io.lastifdpos), fs)
        ELSE LET old == FrameAt(f, d.io.lastifdpos)
                 ifd == IF old.next = 0 THEN [old EXCEPT !.next = d.io.writepos] ELSE old
                 f1  == [f EXCEPT !.frames = [k \in 1..Len(f.frames) |->
                            IF f.frames[k].pos = d.io.lastifdpos THEN ifd ELSE f.frames[k]]]
                 d1  == [d EXCEPT !.io.lastifd = <<ifd>>,
                                  !.io.currpos = d.io.lastifdpos + ifd.size]
             IN  Out(d1, PutActiveFile(d, fs, f1), TRUE, "")

\* addImage from "Reposition file cursor" on, one statement after the other
addImagePad(s4, buff, alignsz) ==
    IF buff.len % alignsz # 0
    THEN commitPadding(s4.d, s4.fs, buff.len - (buff.len \div alignsz) * alignsz)
    ELSE s4

\* mutant: the offset cache receives the header's first-IFD offset for every image
addImageCountMutFirst(s5) ==
    Out([s5.d EXCEPT !.io.ifdcache = Append(@, s5.d.io.header.firstifd),
                     !.imgcounter = @ + 1],
        s5.fs, TRUE, "")

addImageCount(s5) ==
    Out([s5.d EXCEPT !.io.ifdcache = Append(@, s5.d.io.lastifdpos), !.imgcounter = @ + 1],
        s5.fs, TRUE, "")

addImageWrite(d, fs, buff, meta) ==
    Once({addImageCount(s5) :
            s5 \in {addImagePad(s4, buff, AlignSize(d)) :
               s4 \in {commitPixels(s3.d, s3.fs, buff) :
                  s3 \in {appendIFD(d2, fs, buff.len, meta) :
                     d2 \in {IF d.io.writepos # d.io.currpos THEN seek(d, d.io.writepos)
                             ELSE d}}}}})

\* addImage with the container limit maxsize in the place of getMaxFileSize()
addImageLimited(d, fs, buff, meta, maxsize) ==
    IF ~isOpen(d) THEN Throw(d, fs)
    ELSE IF Len(d.shape) < 2 THEN Throw(d, fs)
    ELSE IF StrSize(meta) + buff.len + d.io.currpos
            + calcDescSize(d, MetaBytes(meta), getTagCount(meta)) > maxsize
         THEN Throw(d, fs)
    ELSE Once({IF ~s1.ok THEN s1 ELSE addImageWrite(s1.d, s1.fs, buff, meta) :
                 s1 \in {IF d.io.writepos = 0 THEN commitHeader(d, fs)
                         ELSE IF d.io.lastifd = <<>> /\ d.io.lastifdpos > 0
                              THEN updateLastIFD(d, fs)
                              ELSE Out(d, fs, TRUE, "")}})

addImage(d, fs, buff, meta) == addImageLimited(d, fs, buff, meta, getMaxFileSize)

\* getImage / getImageMetadata: selection of the current IFD by coordinates
selectByCoord(d, fs, coord) ==
    LET r == calcImageIndex(d.shape, coord)
    IN  IF ~r.ok THEN Throw(d, fs)
        ELSE IF r.ind >= Len(d.io.ifdcache) THEN Throw(d, fs)
        ELSE loadIFD([d EXCEPT !.io.currentimage = r.ind], fs, d.io.ifdcache[r.ind + 1])

\* getImage: sequential selection
selectNext(d, fs) ==
    LET d1 == IF d.io.currentimage > 0
              THEN [d EXCEPT !.io.currentifd = <<>>, !.io.currentifdpos = d.io.nextifdpos]
              ELSE d
        d2 == [d1 EXCEPT !.io.currentimage = @ + 1]
    IN  IF d2.io.currentifd = <<>> THEN loadNextIFD(d2, fs) ELSE Out(d2, fs, TRUE, "")

\* getImage from "Obtain pixel data strip locations" on
readStrip(d, fs, ifd) ==
    IF ifd.dataoffset = 0 \/ ifd.datalen = 0 THEN Out(d, fs, TRUE, 0)
    ELSE LET d3 == moveReadCursor(seek(d, ifd.dataoffset), ifd.dataoffset)
         IN  Out(fetchCursors(d3, ifd.datalen), fs, TRUE,
                 fetchPixels(ActiveFile(d3, fs), ifd.dataoffset, ifd.datalen))

getImage(d, fs, coord) ==
    IF ~isOpen(d) THEN Throw(d, fs)
    ELSE IF d.imgcounter = 0 \/ d.io.currentimage + 1 > d.imgcounter \/ d.io.nextifdpos = 0
         THEN Throw(d, fs)
    ELSE Once({IF ~sel.ok THEN sel ELSE readStrip(sel.d, sel.fs, sel.d.io.currentifd[1]) :
                 sel \in {IF coord # <<>> THEN selectByCoord(d, fs, coord)
                          ELSE selectNext(d, fs)}})

\* getImageMetadata: the string copied out of the current IFD buffer
metaFromIFD(d, fs) ==
    LET ifd == d.io.currentifd[1]
    IN  IF ifd.tagcount = G2STIFF_TAG_COUNT_NOMETA THEN Out(d, fs, TRUE, "")
        ELSE IF ifd.metalen = 0 \/ ifd.metaoffset = 0 THEN Out(d, fs, TRUE, "")
        ELSE IF ifd.metaoffset < d.io.currentifdpos THEN Throw(d, fs)
        ELSE LET roff   == ifd.metaoffset - d.io.currentifdpos
                 strlen == IF roff + ifd.metalen > ifd.size
                           THEN ifd.size - roff - ifd.metalen ELSE ifd.metalen - 1
             IN  Out(d, fs, TRUE,
                     IF strlen = StrSize(ifd.meta) THEN ifd.meta ELSE "garbled")

getImageMetadata(d, fs, coord) ==
    IF ~isOpen(d) THEN Throw(d, fs)
    ELSE IF d.imgcounter = 0 THEN Throw(d, fs)
    ELSE Once({IF ~sel.ok THEN sel ELSE metaFromIFD(sel.d, sel.fs) :
                 sel \in {IF coord # <<>> THEN selectByCoord(d, fs, coord)
                          ELSE IF d.io.currentifd = <<>>
                               THEN loadIFD(d, fs, d.io.currentifdpos)
                               ELSE Out(d, fs, TRUE, "")}})

\* appendMetadata(metadata) on the first chunk: the header is committed if no image
\* has committed it yet, then the summary metadata is written as the final section
appendMetadata(d, fs) ==
    LET c  == d.datachunks[1]
        f  == fs[c.dir].files[c.file]
        f1 == IF f.hdr = <<>>
              THEN [f EXCEPT !.hdr = <<d.io.header>>, !.size = Max2(@, G2STIFF_HEADER_SIZE)]
              ELSE f
        f2 == [f1 EXCEPT !.tail = d.metadata, !.size = @ + Len(d.metadata)]
    IN  [fs EXCEPT ![c.dir].files[c.file] = f2]

\* mutant: close appends the summary metadata in read mode too
closeMutAnyMode(d, fs) ==
    LET fs1 == IF d.datachunks # <<>> /\ d.datachunks[1] = d.activechunk /\ d.chunkopen
               THEN appendMetadata(d, fs) ELSE fs
    IN  Out([d EXCEPT !.chunkopen = FALSE,
                      !.io = IF d.datachunks # <<>> THEN FreshStream ELSE @,
                      !.imgcounter = 0, !.bitdepth = 8, !.samples = 1,
                      !.metadata = <<>>, !.shape = <<>>, !.datachunks = <<>>],
            fs1, TRUE, "")

close(d, fs) ==
    LET fs1 == IF d.datachunks # <<>> /\ d.datachunks[1] = d.activechunk /\ d.chunkopen
                  /\ d.writemode
               THEN appendMetadata(d, fs) ELSE fs
    IN  Out([d EXCEPT !.chunkopen = FALSE,
                      !.io = IF d.datachunks # <<>> THEN FreshStream ELSE @,
                      !.imgcounter = 0, !.bitdepth = 8, !.samples = 1,
                      !.metadata = <<>>, !.shape = <<>>, !.datachunks = <<>>],
            fs1, TRUE, "")

create(d, fs, path, dio, fbig, chunksz) ==
    IF isOpen(d) THEN Throw(d, fs)
    ELSE IF path = 0 THEN Throw(d, fs)
    ELSE LET xpath == FirstFree(fs, path)
             chunk == [dir |-> xpath, file |-> 1]
             fs1   == [fs EXCEPT ![xpath] = [exists |-> TRUE, files |-> <<EmptyFile>>]]
             d1    == [d EXCEPT !.directIo = dio, !.writemode = TRUE, !.chunksize = chunksz,
                                !.dspath = xpath, !.activechunk = chunk,
                                !.chunkopen = TRUE, !.io = FreshStream]
         IN  Once({Out([s3.d EXCEPT !.datachunks = Append(@, chunk)], s3.fs, TRUE, "") :
                     s3 \in {IF s2.d.shape # <<>>
                             THEN writeShapeInfo(s2.d, s2.fs, s2.d.shape, s2.d.chunksize)
                             ELSE s2 :
                        s2 \in {IF d1.datasetuid # <<>>
                                THEN writeDatasetUid(d1, fs1, d1.datasetuid)
                                ELSE Out(d1, fs1, TRUE, "")}}})

\* parse: the IFD chain of a file, walked from the header's first-IFD offset
\* a frame is intact when its descriptor and its whole strip lie inside the file
FrameIntact(f, fr) == fr.dataoffset + fr.datalen <= f.size

\* the walk ends at the first frame that is missing or cut short
RECURSIVE ifdChain(_, _, _)
ifdChain(f, pos, acc) ==
    IF pos = 0 \/ FrameIndexAt(f, pos) = {} \/ Len(acc) >= Len(f.frames) THEN acc
    ELSE IF ~FrameIntact(f, FrameAt(f, pos)) THEN acc
    ELSE ifdChain(f, FrameAt(f, pos).next, Append(acc, pos))

\* open(false) + parse: stream state after opening and parsing an existing file
parsedStream(f) ==
    LET chain == ifdChain(f, f.hdr[1].firstifd, <<>>)
    IN  [header |-> f.hdr[1], writepos |-> f.size, readpos |-> f.size, currpos |-> f.size,
         lastifd |-> <<>>,
         lastifdpos |-> IF chain = <<>> THEN 0 ELSE chain[Len(chain)],
         currentifd |-> <<>>, currentifdpos |-> f.hdr[1].firstifd,
         nextifdpos |-> IF chain = <<>> THEN 0 ELSE f.hdr[1].firstifd,
         currentimage |-> 0, ifdcache |-> chain, configset |-> TRUE]

\* load: validation of the parsed dataset parameters; a failed check closes the dataset
loadValidate(d, fs) ==
    IF d.io.header.chunkindex # 0 THEN Throw(close(d, fs).d, fs)
    ELSE IF d.datasetuid = <<>> THEN Throw(close(d, fs).d, fs)
    ELSE IF Len(d.shape) < 3 THEN Throw(close(d, fs).d, fs)
    ELSE IF d.bitdepth < 8 \/ d.bitdepth > 16 THEN Throw(close(d, fs).d, fs)
    ELSE Out(d, fs, TRUE, "")

load(d, fs, path, dio) ==
    IF isOpen(d) THEN Throw(d, fs)
    ELSE IF path = 0 THEN Throw(d, fs)
    ELSE LET d1 == [d EXCEPT !.directIo = dio, !.writemode = FALSE]
         IN  IF ~fs[path].exists THEN Throw(d1, fs)
             ELSE LET found == [k \in 1..Len(fs[path].files) |-> [dir |-> path, file |-> k]]
                      d2    == [d1 EXCEPT !.dspath = path, !.datachunks = @ \o found]
                  IN  IF d2.datachunks = <<>> THEN Throw(d2, fs)
                      ELSE LET c  == d2.datachunks[1]
                               f  == fs[c.dir].files[c.file]
                               d3 == [d2 EXCEPT !.samples = 1, !.imgcounter = 0,
                                                !.metadata = <<>>, !.activechunk = c]
                           IN  IF f.hdr = <<>> THEN Throw([d3 EXCEPT !.chunkopen = FALSE], fs)
                               ELSE loadValidate(
                                      [d3 EXCEPT !.chunkopen = TRUE, !.io = parsedStream(f),
                                                 !.datasetuid = f.hdr[1].uid,
                                                 !.shape = f.hdr[1].shape,
                                                 !.chunksize = f.hdr[1].chunksize,
                                                 !.metadata = f.tail,
                                                 !.bitdepth = IF f.frames = <<>> THEN @
                                                              ELSE f.frames[1].bits],
                                      fs)

setShape(d, fs, dims) ==
    IF Len(dims) < 2 THEN Throw(d, fs)
    ELSE IF ~d.writemode THEN Throw(d, fs)
    ELSE IF Len(d.datachunks) > 1 THEN Throw(d, fs)
    ELSE IF d.imgcounter > 0 /\ Len(d.shape) >= 2
         THEN IF Len(dims) # Len(d.shape) THEN Throw(d, fs)
              ELSE IF dims[Len(dims) - 1] # d.shape[Len(d.shape) - 1]
                      \/ dims[Len(dims)] # d.shape[Len(d.shape)]
                   THEN Throw(d, fs)
                   ELSE Out(d, fs, TRUE, "")
    ELSE LET d1 == [d EXCEPT !.shape = dims]
         IN  IF d1.activechunk # NoChunk THEN writeShapeInfo(d1, fs, d1.shape, d1.chunksize)
             ELSE Out(d1, fs, TRUE, "")

setPixelFormat(d, fs, depth, vsamples) ==
    IF ~d.writemode THEN Throw(d, fs)
    ELSE IF Len(d.datachunks) > 1 THEN Throw(d, fs)
    ELSE IF d.imgcounter > 0
         THEN IF d.bitdepth # depth \/ d.samples # vsamples THEN Throw(d, fs)
              ELSE Out(d, fs, TRUE, "")
    ELSE Out([d EXCEPT !.bitdepth = depth, !.samples = vsamples], fs, TRUE, "")

setMetadata(d, fs, meta) ==
    IF ~d.writemode THEN Throw(d, fs)
    ELSE Out([d EXCEPT !.metadata = MetaBuffer(meta)], fs, TRUE, "")

getMetadata(d) == IF d.metadata = <<>> THEN "" ELSE d.metadata[1]

\* setUID: the character test of the validation loop
BadHex(c) == c < 48 \/ c > 102 \/ (c > 57 /\ c < 65) \/ (c > 70 /\ c < 97)
DashAt == {9, 14, 19, 24}

setUID(d, fs, val) ==
    IF ~d.writemode THEN Throw(d, fs)
    ELSE IF Len(d.datachunks) > 1 THEN Throw(d, fs)
    ELSE IF val # <<>> /\ Len(val) # 32 /\ Len(val) # 36 THEN Throw(d, fs)
    ELSE IF val # <<>> /\ Len(val) = 36 /\ \E i \in DashAt : val[i] # ChDash THEN Throw(d, fs)
    ELSE IF val # <<>> /\ \E i \in 1..Len(val) :
                             ~(Len(val) = 36 /\ i \in DashAt) /\ BadHex(val[i])
         THEN Throw(d, fs)
    ELSE LET uid == IF val = <<>> \/ Len(val) = 36 THEN val
                    ELSE SubSeq(val, 1, 8) \o <<ChDash>> \o SubSeq(val, 9, 12) \o <<ChDash>>
                         \o SubSeq(val, 13, 16) \o <<ChDash>> \o SubSeq(val, 17, 20)
                         \o <<ChDash>> \o SubSeq(val, 21, 32)
             d1  == [d EXCEPT !.datasetuid = uid]
         IN  IF d1.activechunk # NoChunk THEN writeDatasetUid(d1, fs, d1.datasetuid)
             ELSE Out(d1, fs, TRUE, "")

(***************************************************************************)
(* G2SBigTiffStorage: the service and its descriptor cache.  The file      *)
(* object behind a descriptor (G2STiffFile) is a dataset object as above.  *)
(***************************************************************************)
\* descriptors the cache holds before cacheReduce is tried
MAX_CACHE_SIZE == 2
\* with the hard limit a full cache of open descriptors refuses the new one
CACHE_HARD_LIMIT == TRUE
\* G2SBigTiffStorage::G2SBigTiffStorage(): directIo = true
SvcDirectIo == TRUE
\* sizeof(coordinates) of the array parameter int coordinates[], and sizeof(int)
SizeofCoordinates == 8
SizeofInt == 4

\* UUIDs boost's random_generator hands out
Guids == {UidDashed(ChDigit0 + k) : k \in 1..MaxDirs}

\* shapes, coordinates handed to the service
SvcShapeInputs == {<<2, 2, 1, 1>>, <<1, 1>>}
SvcCoordInputs == {<<0>>, <<0, 0>>, <<0, 2>>, <<2, 0>>, <<2, 0, 0, 0>>}

\* G2SDimensionInfo of an axis of the declared size: no name, no description, one
\* empty label per coordinate
DimensionInfo(size) == [Name |-> "", Metadata |-> "", Coordinates |-> [k \in 1..size |-> ""]]

\* G2SStorageEntry: one G2SDimensionInfo per axis of the shape; ImageIndex and
\* ImageMetadata are never filled by the service
StorageEntry(path, shape, meta, obj) ==
    [Path |-> path, Metadata |-> meta, FileHandle |-> <<obj>>,
     Dimensions |-> [i \in 1..Len(shape) |-> DimensionInfo(shape[i])],
     ImageIndex |-> {}, ImageMetadata |-> <<>>]

entryIsOpen(e) == e.FileHandle # <<>>

SvcOut(c, fs, code, val) == [c |-> c, fs |-> fs, code |-> code, val |-> val]

cacheInsert(c, guid, e) == [h \in DOMAIN c \cup {guid} |-> IF h = guid THEN e ELSE c[h]]
cacheErase(c, gone) == [h \in DOMAIN c \ gone |-> c[h]]

\* mutant: cacheReduce discards every descriptor
cacheReduceMutAll(c) == cacheErase(c, DOMAIN c)

cacheReduce(c) == cacheErase(c, {h \in DOMAIN c : ~entryIsOpen(c[h])})

\* Create, statement by statement from the opened file object on: o, u, z, m are the
\* outcomes of open(true), setUID, setShape, setMetadata
createInsert(c1, path, shape, meta, guid, m) ==
    IF ~m.ok THEN SvcOut(c1, m.fs, "exception", <<>>)
    ELSE IF guid \in DOMAIN c1 THEN SvcOut(c1, m.fs, "DEVICE_OUT_OF_MEMORY", <<>>)
    ELSE SvcOut(cacheInsert(c1, guid, StorageEntry(path, shape, meta, m.d)), m.fs,
                "DEVICE_OK", guid)

createShaped(c1, path, shape, meta, guid, z) ==
    IF ~z.ok THEN SvcOut(c1, z.fs, "exception", <<>>)
    ELSE Once({createInsert(c1, path, shape, meta, guid, m) :
                 m \in {setMetadata(z.d, z.fs, meta)}})

createNamed(c1, path, shape, meta, guid, u) ==
    IF ~u.ok THEN SvcOut(c1, u.fs, "exception", <<>>)
    ELSE Once({createShaped(c1, path, shape, meta, guid, z) :
                 z \in {setShape(u.d, u.fs, shape)}})

createOpened(c1, path, shape, meta, guid, o) ==
    IF ~o.ok THEN SvcOut(c1, o.fs, "DEVICE_OUT_OF_MEMORY", <<>>)
    ELSE Once({createNamed(c1, path, shape, meta, guid, u) :
                 u \in {setUID(o.d, o.fs, guid)}})

SvcCreate(c, fs, path, shape, meta, guid) ==
    IF path = 0 \/ Len(shape) <= 0 THEN SvcOut(c, fs, "DEVICE_INVALID_INPUT_PARAM", <<>>)
    ELSE LET full == Cardinality(DOMAIN c) >= MAX_CACHE_SIZE
             c1   == IF full THEN cacheReduce(c) ELSE c
         IN  IF full /\ CACHE_HARD_LIMIT /\ Cardinality(DOMAIN c1) >= MAX_CACHE_SIZE
             THEN SvcOut(c1, fs, "DEVICE_OUT_OF_MEMORY", <<>>)
             ELSE IF fs[path].exists
             THEN SvcOut(c1, fs, "DEVICE_DUPLICATE_PROPERTY", <<>>)
             ELSE Once({createOpened(c1, path, shape, meta, guid, o) :
                          o \in {create(NewDataset, fs, path, SvcDirectIo, TRUE, 0)}})

\* Load from the opened file object o on
loadInsert(c, path, o, guid) ==
    IF ~o.ok THEN SvcOut(c, o.fs, "DEVICE_OUT_OF_MEMORY", <<>>)
    ELSE IF guid \in DOMAIN c THEN SvcOut(c, o.fs, "DEVICE_OUT_OF_MEMORY", <<>>)
    ELSE SvcOut(cacheInsert(c, guid, StorageEntry(path, o.d.shape, getMetadata(o.d), o.d)),
                o.fs, "DEVICE_OK", guid)

SvcLoad(c, fs, path, fresh) ==
    IF path = 0 THEN SvcOut(c, fs, "DEVICE_INVALID_INPUT_PARAM", <<>>)
    ELSE IF ~fs[path].exists THEN SvcOut(c, fs, "DEVICE_INVALID_INPUT_PARAM", <<>>)
    ELSE Once({loadInsert(c, path, o, IF o.d.datasetuid = <<>> THEN fresh
                                      ELSE o.d.datasetuid) :
                 o \in {load(NewDataset, fs, path, SvcDirectIo)}})

\* mutant: closing a descriptor discards its summary metadata and its axis names
entryCloseMutDiscard(c, fs, h) ==
    SvcOut([c EXCEPT ![h].FileHandle = <<>>, ![h].Metadata = "",
                     ![h].Dimensions = [i \in DOMAIN @ |-> DimensionInfo(Len(@[i].Coordinates))]],
           close(c[h].FileHandle[1], fs).fs, "DEVICE_OK", <<>>)

\* fs->close(); it->second.close(); delete fs;
entryClose(c, fs, h) ==
    SvcOut([c EXCEPT ![h].FileHandle = <<>>], close(c[h].FileHandle[1], fs).fs,
           "DEVICE_OK", <<>>)

\* mutant: Close treats a handle that is already closed as an unknown one
SvcCloseMutStrict(c, fs, h) ==
    IF h \notin DOMAIN c THEN SvcOut(c, fs, "DEVICE_INVALID_INPUT_PARAM", <<>>)
    ELSE IF entryIsOpen(c[h]) THEN entryClose(c, fs, h)
    ELSE SvcOut(c, fs, "DEVICE_INVALID_INPUT_PARAM", <<>>)

SvcClose(c, fs, h) ==
    IF h \notin DOMAIN c THEN SvcOut(c, fs, "DEVICE_INVALID_INPUT_PARAM", <<>>)
    ELSE IF entryIsOpen(c[h]) THEN entryClose(c, fs, h)
    ELSE SvcOut(c, fs, "DEVICE_OK", <<>>)

\* mutant: Delete removes the dataset from disk and keeps its descriptor
SvcDeleteMutKeep(c, fs, h) ==
    IF h \notin DOMAIN c THEN SvcOut(c, fs, "DEVICE_INVALID_INPUT_PARAM", <<>>)
    ELSE IF ~fs[c[h].Path].exists THEN SvcOut(c, fs, "DEVICE_NO_PROPERTY_DATA", <<>>)
    ELSE LET fs1 == IF entryIsOpen(c[h]) THEN entryClose(c, fs, h).fs ELSE fs
         IN  SvcOut(IF entryIsOpen(c[h]) THEN entryClose(c, fs, h).c ELSE c,
                    [fs1 EXCEPT ![c[h].Path] = NoDir], "DEVICE_OK", <<>>)

\* Delete: the entry's file is closed if open, the dataset is removed from disk and the
\* entry is erased
SvcDelete(c, fs, h) ==
    IF h \notin DOMAIN c THEN SvcOut(c, fs, "DEVICE_INVALID_INPUT_PARAM", <<>>)
    ELSE IF ~fs[c[h].Path].exists THEN SvcOut(c, fs, "DEVICE_NO_PROPERTY_DATA", <<>>)
    ELSE LET fs1 == IF entryIsOpen(c[h]) THEN entryClose(c, fs, h).fs ELSE fs
         IN  SvcOut(cacheErase(c, {h}), [fs1 EXCEPT ![c[h].Path] = NoDir], "DEVICE_OK", <<>>)

\* Shutdown: the loop over the cache, then cache.clear()
RECURSIVE shutdownLoop(_, _, _)
shutdownLoop(c, fs, left) ==
    IF left = {} THEN fs
    ELSE LET h == CHOOSE x \in left : TRUE
         IN  shutdownLoop(c, IF entryIsOpen(c[h]) THEN entryClose(c, fs, h).fs ELSE fs,
                          left \ {h})

SvcShutdown(c, fs) == SvcOut(<<>>, shutdownLoop(c, fs, DOMAIN c), "DEVICE_OK", <<>>)

\* AddImage: the range loop; shape entries at i + 2 beyond the end of the shape are
\* out-of-bounds reads, their comparison goes as `garbage` says
coordRejected(shape, coords, garbage) ==
    \E i \in 1..Len(coords) :
        \/ coords[i] < 0
        \/ IF i + 2 <= Len(shape) THEN coords[i] >= shape[i + 2] ELSE garbage

\* AddImage on a descriptor whose file object has been deleted: fs->getDimension() is a
\* call through a pointer to no object; the process dies, or the value read differs
\* from numCoordinates and the call returns through line 367
addReleased(c, fs, garbage) ==
    SvcOut(c, fs, IF garbage THEN "crash" ELSE "DEVICE_INVALID_INPUT_PARAM", <<>>)

\* AddImage after the pixel format call pf: the range loop, then fs->addImage
addStored(c, h, r) ==
    SvcOut([c EXCEPT ![h].FileHandle = <<r.d>>], r.fs,
           IF r.ok THEN "DEVICE_OK" ELSE "exception", <<>>)

addChecked(c, fs, h, buff, coords, meta, garbage, pf) ==
    IF ~pf.ok THEN SvcOut(c, fs, "exception", <<>>)
    ELSE IF coordRejected(pf.d.shape, coords, garbage)
    THEN SvcOut([c EXCEPT ![h].FileHandle = <<pf.d>>], fs, "DEVICE_INVALID_INPUT_PARAM", <<>>)
    ELSE Once({addStored(c, h, r) : r \in {addImage(pf.d, fs, buff, meta)}})

SvcAddImage(c, fs, h, buff, coords, meta, garbage) ==
    IF buff.len <= 0 \/ Len(coords) <= 0 \/ SizeofCoordinates # Len(coords) * SizeofInt
    THEN SvcOut(c, fs, "DEVICE_INVALID_INPUT_PARAM", <<>>)
    ELSE IF h \notin DOMAIN c THEN SvcOut(c, fs, "DEVICE_INVALID_INPUT_PARAM", <<>>)
    ELSE IF ~entryIsOpen(c[h]) THEN addReleased(c, fs, garbage)
    ELSE LET d == c[h].FileHandle[1]
         IN  IF Len(coords) # Len(d.shape)
             THEN SvcOut(c, fs, "DEVICE_INVALID_INPUT_PARAM", <<>>)
             ELSE Once({addChecked(c, fs, h, buff, coords, meta, garbage, pf) :
                          pf \in {IF d.imgcounter = 0
                                  THEN setPixelFormat(d, fs, d.bitdepth, 1)
                                  ELSE Out(d, fs, TRUE, "")}})

\* GetImage: a null pointer on every path
SvcGetImage(c, fs, h, coords) ==
    IF Len(coords) <= 0 \/ SizeofCoordinates # Len(coords) * SizeofInt
    THEN SvcOut(c, fs, "nullptr", <<>>)
    ELSE IF h \notin DOMAIN c THEN SvcOut(c, fs, "nullptr", <<>>)
    ELSE SvcOut(c, fs, "nullptr", <<>>)

\* getImageKey: the coordinates joined into a key
getImageKey(coords) == coords

SvcGetImageMeta(c, fs, h, coords) ==
    IF Len(coords) = 0 \/ SizeofCoordinates # Len(coords) * SizeofInt
    THEN SvcOut(c, fs, "DEVICE_INVALID_INPUT_PARAM", <<>>)
    ELSE IF h \notin DOMAIN c THEN SvcOut(c, fs, "DEVICE_INVALID_INPUT_PARAM", <<>>)
    ELSE IF \A e \in c[h].ImageIndex : e.key # getImageKey(coords)
    THEN SvcOut(c, fs, "DEVICE_INVALID_INPUT_PARAM", <<>>)
    ELSE LET iind == (CHOOSE e \in c[h].ImageIndex : e.key = getImageKey(coords)).ind
         IN  IF iind >= Len(c[h].ImageMetadata)
             THEN SvcOut(c, fs, "DEVICE_INVALID_INPUT_PARAM", <<>>)
             ELSE SvcOut(c, fs, "DEVICE_OK", c[h].ImageMetadata[iind + 1])

SvcGetSummaryMeta(c, fs, h) ==
    IF h \notin DOMAIN c THEN SvcOut(c, fs, "DEVICE_INVALID_INPUT_PARAM", <<>>)
    ELSE SvcOut(c, fs, "DEVICE_OK", c[h].Metadata)

\* ConfigureDimension / ConfigureCoordinate: name, description and labels go into the
\* descriptor (dimension and coordinate count from 0)
SvcConfigureDimension(c, fs, h, dimension, name, meaning) ==
    IF dimension < 0 THEN SvcOut(c, fs, "DEVICE_INVALID_INPUT_PARAM", <<>>)
    ELSE IF h \notin DOMAIN c THEN SvcOut(c, fs, "DEVICE_INVALID_INPUT_PARAM", <<>>)
    ELSE IF dimension >= Len(c[h].Dimensions)
    THEN SvcOut(c, fs, "DEVICE_INVALID_INPUT_PARAM", <<>>)
    ELSE SvcOut([c EXCEPT ![h].Dimensions[dimension + 1].Name = name,
                          ![h].Dimensions[dimension + 1].Metadata = meaning],
                fs, "DEVICE_OK", <<>>)

SvcConfigureCoordinate(c, fs, h, dimension, coordinate, name) ==
    IF dimension < 0 \/ coordinate < 0 THEN SvcOut(c, fs, "DEVICE_INVALID_INPUT_PARAM", <<>>)
    ELSE IF h \notin DOMAIN c THEN SvcOut(c, fs, "DEVICE_INVALID_INPUT_PARAM", <<>>)
    ELSE IF dimension >= Len(c[h].Dimensions)
    THEN SvcOut(c, fs, "DEVICE_INVALID_INPUT_PARAM", <<>>)
    ELSE IF coordinate >= Len(c[h].Dimensions[dimension + 1].Coordinates)
    THEN SvcOut(c, fs, "DEVICE_INVALID_INPUT_PARAM", <<>>)
    ELSE SvcOut([c EXCEPT ![h].Dimensions[dimension + 1].Coordinates[coordinate + 1] = name],
                fs, "DEVICE_OK", <<>>)

\* the descriptor queries; nameLength / meaningLength are the sizes of the caller's buffers
SvcGetNumberOfDimensions(c, fs, h) ==
    IF h \notin DOMAIN c THEN SvcOut(c, fs, "DEVICE_INVALID_INPUT_PARAM", <<>>)
    ELSE SvcOut(c, fs, "DEVICE_OK", Len(c[h].Dimensions))

SvcGetDimension(c, fs, h, dimension, nameLength, meaningLength) ==
    IF dimension < 0 \/ meaningLength <= 0
    THEN SvcOut(c, fs, "DEVICE_INVALID_INPUT_PARAM", <<>>)
    ELSE IF h \notin DOMAIN c THEN SvcOut(c, fs, "DEVICE_INVALID_INPUT_PARAM", <<>>)
    ELSE IF dimension >= Len(c[h].Dimensions)
    THEN SvcOut(c, fs, "DEVICE_INVALID_INPUT_PARAM", <<>>)
    ELSE IF StrSize(c[h].Dimensions[dimension + 1].Name) > nameLength
    THEN SvcOut(c, fs, "DEVICE_INVALID_PROPERTY_LIMTS", <<>>)
    ELSE IF StrSize(c[h].Dimensions[dimension + 1].Metadata) > meaningLength
    THEN SvcOut(c, fs, "DEVICE_INVALID_PROPERTY_LIMTS", <<>>)
    ELSE SvcOut(c, fs, "DEVICE_OK",
                <<c[h].Dimensions[dimension + 1].Name, c[h].Dimensions[dimension + 1].Metadata>>)

SvcGetCoordinate(c, fs, h, dimension, coordinate, nameLength) ==
    IF dimension < 0 \/ coordinate < 0 \/ nameLength <= 0
    THEN SvcOut(c, fs, "DEVICE_INVALID_INPUT_PARAM", <<>>)
    ELSE IF h \notin DOMAIN c THEN SvcOut(c, fs, "DEVICE_INVALID_INPUT_PARAM", <<>>)
    ELSE IF dimension >= Len(c[h].Dimensions)
    THEN SvcOut(c, fs, "DEVICE_INVALID_INPUT_PARAM", <<>>)
    ELSE IF coordinate >= Len(c[h].Dimensions[dimension + 1].Coordinates)
    THEN SvcOut(c, fs, "DEVICE_INVALID_INPUT_PARAM", <<>>)
    ELSE IF StrSize(c[h].Dimensions[dimension + 1].Coordinates[coordinate + 1]) > nameLength
    THEN SvcOut(c, fs, "DEVICE_INVALID_PROPERTY_LIMTS", <<>>)
    ELSE SvcOut(c, fs, "DEVICE_OK", c[h].Dimensions[dimension + 1].Coordinates[coordinate + 1])

(***************************************************************************)
(* Ghost bookkeeping of what the client handed over                        *)
(***************************************************************************)
NoGhost ==
    [images |-> <<>>, closed |-> <<>>, sealed |-> 0, crashed |-> FALSE, axes |-> <<>>,
     reads |-> 0]

Config(d) ==
    [uid |-> d.datasetuid, shape |-> d.shape, chunksize |-> d.chunksize,
     bits |-> d.bitdepth, samples |-> d.samples, meta |-> getMetadata(d)]

GhostAdd(w, d, ok, buff, meta) ==
    IF ok THEN [w EXCEPT ![d.dspath].images = Append(@, [pix |-> buff.id, meta |-> meta])]
    ELSE w

\* the axis info the client has configured on the open descriptor h of the map c
GhostAxes(w, c, c1, h, code) ==
    IF code = "DEVICE_OK" /\ entryIsOpen(c[h])
    THEN [w EXCEPT ![c[h].Path].axes = c1[h].Dimensions]
    ELSE w

GhostClose(w, d) ==
    IF isOpen(d) /\ d.writemode
    THEN [w EXCEPT ![d.dspath].closed = <<Config(d)>>,
                   ![d.dspath].sealed = Len(w[d.dspath].images)]
    ELSE w

(***************************************************************************)
(* SpecCalc: specification of the coordinate arithmetic                    *)
(***************************************************************************)
InitCalc ==
    /\ calc \in {[NoCalc EXCEPT !.st = "drawn", !.shape = sh, !.coord = c] :
                    sh \in CalcShapes, c \in CalcCoords}
    /\ ds = NewDataset
    /\ disk = [p \in 1..MaxDirs |-> NoDir]
    /\ ret = NoRet
    /\ written = [p \in 1..MaxDirs |-> NoGhost]
    /\ cache = <<>>
    /\ threads = NoThreads

NextCalc == CalcIndexStep \/ CalcInverseStep

SpecCalc == InitCalc /\ [][NextCalc]_vars

IndexIsRowMajor ==
    (calc.st # "drawn" /\ calc.ok)
        => /\ calc.ind = RowMajor(IndexAxes(calc.shape),
                                  PadCoord(calc.shape, calc.coord), 1, 0)
           /\ (calc.shape = <<2, 3, 2>> \o CalcPlane /\ calc.coord = <<3, 1, 0>>)
                  => calc.ind = 20
           /\ (calc.shape = <<2, 4, 3>> \o CalcPlane /\ calc.coord = <<1, 2, 1>>)
                  => calc.ind = 19

\* C10 witness: the documented example has been computed, from a short coordinate too
IndexIsRowMajorWitness ==
    /\ calc.st = "indexed"
    /\ calc.ok
    /\ calc.shape = <<2, 4, 3>> \o CalcPlane
    /\ calc.coord = <<1, 2>>
    /\ calc.ind = 18

(***************************************************************************)
(* Spec: one G2SBigTiffDataset object driven by a client                   *)
(***************************************************************************)
UNCHANGED_svc == UNCHANGED <<calc, threads, cache>>

DsCreate ==
    \E path \in 1..MaxDirs, dio \in DirectIoInputs, fbig \in BOOLEAN, chunksz \in ChunkInputs :
        /\ FreeDirs(disk, path) # {}
        /\ \E r \in {create(ds, disk, path, dio, fbig, chunksz)} :
               /\ ds' = r.d
               /\ disk' = r.fs
               /\ ret' = Ret("create", r, 0, "")
        /\ UNCHANGED written
        /\ UNCHANGED_svc

DsLoad ==
    \E path \in 1..MaxDirs, dio \in DirectIoInputs :
        /\ \E r \in {load(ds, disk, path, dio)} :
               /\ ds' = r.d
               /\ disk' = r.fs
               /\ ret' = Ret("load", r, 0, "")
        /\ UNCHANGED written
        /\ UNCHANGED_svc

DsClose ==
    /\ \E r \in {close(ds, disk)} :
           /\ ds' = r.d
           /\ disk' = r.fs
           /\ ret' = Ret("close", r, 0, "")
    /\ written' = GhostClose(written, ds)
    /\ UNCHANGED_svc

DsSetShape ==
    \E dims \in ShapeInputs :
        /\ \E r \in {setShape(ds, disk, dims)} :
               /\ ds' = r.d
               /\ disk' = r.fs
               /\ ret' = Ret("setShape", r, 0, "")
        /\ UNCHANGED written
        /\ UNCHANGED_svc

DsSetPixelFormat ==
    \E fmt \in FormatInputs :
        /\ \E r \in {setPixelFormat(ds, disk, fmt[1], fmt[2])} :
               /\ ds' = r.d
               /\ disk' = r.fs
               /\ ret' = Ret("setPixelFormat", r, 0, "")
        /\ UNCHANGED written
        /\ UNCHANGED_svc

DsSetMetadata ==
    \E meta \in MetaInputs :
        /\ \E r \in {setMetadata(ds, disk, meta)} :
               /\ ds' = r.d
               /\ disk' = r.fs
               /\ ret' = Ret("setMetadata", r, 0, "")
        /\ UNCHANGED written
        /\ UNCHANGED_svc

DsSetUID ==
    \E val \in UidInputs :
        /\ \E r \in {setUID(ds, disk, val)} :
               /\ ds' = r.d
               /\ disk' = r.fs
               /\ ret' = Ret("setUID", r, 0, "")
        /\ UNCHANGED written
        /\ UNCHANGED_svc

DsAddImage ==
    \E img \in ImageInputs :
        /\ isOpen(ds) => Len(ActiveFile(ds, disk).frames) < MaxImages
        /\ \E r \in {addImage(ds, disk, img[1], img[2])} :
               /\ ds' = r.d
               /\ disk' = r.fs
               /\ ret' = Ret("addImage", r, 0, "")
               /\ written' = GhostAdd(written, ds, r.ok, img[1], img[2])
        /\ UNCHANGED_svc

DsGetImage ==
    \E coord \in CoordInputs :
        /\ \E r \in {getImage(ds, disk, coord)} :
               /\ ds' = r.d
               /\ disk' = r.fs
               /\ ret' = [Ret("getImage", r, r.val, "") EXCEPT !.coord = coord]
        /\ UNCHANGED written
        /\ UNCHANGED_svc

DsGetImageMetadata ==
    \E coord \in CoordInputs :
        /\ \E r \in {getImageMetadata(ds, disk, coord)} :
               /\ ds' = r.d
               /\ disk' = r.fs
               /\ ret' = [Ret("getImageMetadata", r, 0, r.val) EXCEPT !.coord = coord]
        /\ UNCHANGED written
        /\ UNCHANGED_svc

DsGetMetadata ==
    /\ ret' = [NoRet EXCEPT !.op = "getMetadata", !.str = getMetadata(ds)]
    /\ UNCHANGED <<ds, disk, written>>
    /\ UNCHANGED_svc

Init ==
    /\ calc = NoCalc
    /\ ds = NewDataset
    /\ disk = [p \in 1..MaxDirs |-> NoDir]
    /\ ret = NoRet
    /\ written = [p \in 1..MaxDirs |-> NoGhost]
    /\ cache = <<>>
    /\ threads = NoThreads

Next ==
    \/ DsCreate
    \/ DsLoad
    \/ DsClose
    \/ DsSetShape
    \/ DsSetPixelFormat
    \/ DsSetMetadata
    \/ DsSetUID
    \/ DsAddImage
    \/ DsGetImage
    \/ DsGetImageMetadata
    \/ DsGetMetadata

Spec == Init /\ [][Next]_vars

(***************************************************************************)
(* SpecCrash: a write session that is killed while addImage is writing its *)
(* last frame; the file keeps its first B bytes and a new process loads it *)
(***************************************************************************)
\* bytes a killed addImage may have got to disk: nothing of the frame, part of the
\* descriptor, the descriptor only, all but the last strip byte, the whole strip
CutPoints(fr) ==
    {fr.pos, fr.pos + 1, fr.dataoffset, fr.dataoffset + fr.datalen - 1,
     fr.dataoffset + fr.datalen}

\* the file cut at byte B: frames that start at or behind B are gone, no close ran
truncate(f, B) ==
    [f EXCEPT !.size = B, !.tail = <<>>,
              !.frames = SelectSeq(f.frames, LAMBDA fr : fr.pos < B)]

DsCrash ==
    /\ isOpen(ds)
    /\ ds.writemode
    /\ ActiveFile(ds, disk).frames # <<>>
    /\ \E B \in CutPoints(ActiveFile(ds, disk).frames[Len(ActiveFile(ds, disk).frames)]) :
           disk' = PutActiveFile(ds, disk, truncate(ActiveFile(ds, disk), B))
    /\ written' = [written EXCEPT ![ds.dspath].crashed = TRUE]
    /\ ds' = NewDataset
    /\ ret' = [NoRet EXCEPT !.op = "crash"]
    /\ UNCHANGED_svc

NextCrash ==
    \/ DsCreate
    \/ DsSetShape
    \/ DsSetUID
    \/ DsAddImage
    \/ DsCrash
    \/ DsLoad
    \/ DsGetImage

SpecCrash == Init /\ [][NextCrash]_vars

(***************************************************************************)
(* SpecSvc: the G2SBigTiffStorage service driven by a client               *)
(***************************************************************************)
SvcRet(o, r, h, coords, str) ==
    [NoRet EXCEPT !.op = o, !.ok = (r.code = "DEVICE_OK"), !.code = r.code,
                  !.handle = h, !.coord = coords, !.str = str]

Create ==
    \E path \in 0..MaxDirs, shape \in SvcShapeInputs, meta \in MetaInputs,
       guid \in Guids \ DOMAIN cache :
        /\ \E r \in {SvcCreate(cache, disk, path, shape, meta, guid)} :
               /\ cache' = r.c
               /\ disk' = r.fs
               /\ ret' = [SvcRet("Create", r, r.val, <<>>, "") EXCEPT !.path = path]
        /\ UNCHANGED <<calc, threads, ds, written>>

Load ==
    \E path \in 0..MaxDirs, fresh \in Guids :
        /\ \E r \in {SvcLoad(cache, disk, path, fresh)} :
               /\ cache' = r.c
               /\ disk' = r.fs
               /\ ret' = [SvcRet("Load", r, r.val, <<>>, "") EXCEPT !.path = path]
        /\ UNCHANGED <<calc, threads, ds, written>>

Close ==
    \E h \in Guids :
        /\ \E r \in {SvcClose(cache, disk, h)} :
               /\ cache' = r.c
               /\ disk' = r.fs
               /\ ret' = SvcRet("Close", r, h, <<>>, "")
        /\ written' = IF h \in DOMAIN cache /\ entryIsOpen(cache[h])
                      THEN GhostClose(written, cache[h].FileHandle[1]) ELSE written
        /\ UNCHANGED <<calc, threads, ds>>

Shutdown ==
    /\ \E r \in {SvcShutdown(cache, disk)} :
           /\ cache' = r.c
           /\ disk' = r.fs
           /\ ret' = SvcRet("Shutdown", r, <<>>, <<>>, "")
    /\ written' = [p \in 1..MaxDirs |->
                      IF \E h \in DOMAIN cache :
                             entryIsOpen(cache[h]) /\ cache[h].FileHandle[1].dspath = p
                      THEN LET h == CHOOSE x \in DOMAIN cache :
                                        entryIsOpen(cache[x])
                                        /\ cache[x].FileHandle[1].dspath = p
                           IN  GhostClose(written, cache[h].FileHandle[1])[p]
                      ELSE written[p]]
    /\ UNCHANGED <<calc, threads, ds>>

AddImage ==
    \E h \in Guids, img \in ImageInputs, coords \in SvcCoordInputs, garbage \in BOOLEAN :
        /\ (h \in DOMAIN cache /\ entryIsOpen(cache[h]))
               => Len(ActiveFile(cache[h].FileHandle[1], disk).frames) < MaxImages
        /\ \E r \in {SvcAddImage(cache, disk, h, img[1], coords, img[2], garbage)} :
               /\ cache' = r.c
               /\ disk' = r.fs
               /\ ret' = SvcRet("AddImage", r, h, coords, "")
               /\ written' = IF r.code = "DEVICE_OK"
                             THEN GhostAdd(written, cache[h].FileHandle[1], TRUE,
                                           img[1], img[2])
                             ELSE written
        /\ UNCHANGED <<calc, threads, ds>>

GetImage ==
    \E h \in Guids, coords \in SvcCoordInputs :
        /\ \E r \in {SvcGetImage(cache, disk, h, coords)} :
               /\ cache' = r.c
               /\ disk' = r.fs
               /\ ret' = SvcRet("GetImage", r, h, coords, "")
        /\ UNCHANGED <<calc, threads, ds, written>>

GetImageMeta ==
    \E h \in Guids, coords \in SvcCoordInputs :
        /\ \E r \in {SvcGetImageMeta(cache, disk, h, coords)} :
               /\ cache' = r.c
               /\ disk' = r.fs
               /\ ret' = SvcRet("GetImageMeta", r, h, coords, r.val)
        /\ UNCHANGED <<calc, threads, ds, written>>

GetSummaryMeta ==
    \E h \in Guids :
        /\ \E r \in {SvcGetSummaryMeta(cache, disk, h)} :
               /\ cache' = r.c
               /\ disk' = r.fs
               /\ ret' = SvcRet("GetSummaryMeta", r, h, <<>>,
                                IF r.code = "DEVICE_OK" THEN r.val ELSE "")
        /\ UNCHANGED <<calc, threads, ds, written>>

NextSvc ==
    \/ Create
    \/ Load
    \/ Close
    \/ Shutdown
    \/ AddImage
    \/ GetImage
    \/ GetImageMeta
    \/ GetSummaryMeta

SpecSvc == Init /\ [][NextSvc]_vars

(***************************************************************************)
(* SpecClose: a client of the service and a client of a dataset object,    *)
(* each of which may repeat its close call                                 *)
(***************************************************************************)
\* Close(h) called again with the handle of the Close that has just returned
CloseAgain ==
    /\ ret.op \in {"Close", "CloseAgain"}
    /\ ret.ok
    /\ \E r \in {SvcClose(cache, disk, ret.handle)} :
           /\ cache' = r.c
           /\ disk' = r.fs
           /\ ret' = SvcRet("CloseAgain", r, ret.handle, <<>>, "")
    /\ UNCHANGED <<calc, threads, ds, written>>

\* close() called again on the dataset object whose close has just returned
DsCloseAgain ==
    /\ ret.op \in {"close", "closeAgain"}
    /\ \E r \in {close(ds, disk)} :
           /\ ds' = r.d
           /\ disk' = r.fs
           /\ ret' = Ret("closeAgain", r, 0, "")
    /\ UNCHANGED written
    /\ UNCHANGED_svc

NextClose ==
    \/ Create
    \/ AddImage
    \/ Close
    \/ CloseAgain
    \/ Load
    \/ DsCreate
    \/ DsSetShape
    \/ DsSetUID
    \/ DsSetMetadata
    \/ DsAddImage
    \/ DsClose
    \/ DsCloseAgain

SpecClose == Init /\ [][NextClose]_vars

(***************************************************************************)
(* SpecCfg: the configuration calls of a dataset object with a wider range *)
(* of arguments, legal and illegal                                         *)
(***************************************************************************)
\* a 36-character string whose first dash is one place late
UidMisdashed == [UidDashed(Ch1) EXCEPT ![9] = Ch1, ![10] = ChDash]

CfgUidInputs ==
    {<<>>, UidPlain(Ch1), UidDashed(Ch1), UidPlain(ChUpperF), UidPlain(ChG), Rep(Ch1, 5),
     UidMisdashed}
CfgShapeInputs == {<<2, 2, 1, 1>>, <<3, 2, 1, 1>>, <<1>>}
CfgFormatInputs == {<<8, 1>>, <<12, 5>>}

CfgCreate ==
    \E path \in 1..MaxDirs, dio \in DirectIoInputs :
        /\ FreeDirs(disk, path) # {}
        /\ \E r \in {create(ds, disk, path, dio, TRUE, 0)} :
               /\ ds' = r.d
               /\ disk' = r.fs
               /\ ret' = Ret("create", r, 0, "")
        /\ UNCHANGED written
        /\ UNCHANGED_svc

CfgSetShape ==
    \E dims \in CfgShapeInputs :
        /\ \E r \in {setShape(ds, disk, dims)} :
               /\ ds' = r.d
               /\ disk' = r.fs
               /\ ret' = [Ret("setShape", r, 0, "") EXCEPT !.arg = dims]
        /\ UNCHANGED written
        /\ UNCHANGED_svc

CfgSetPixelFormat ==
    \E fmt \in CfgFormatInputs :
        /\ \E r \in {setPixelFormat(ds, disk, fmt[1], fmt[2])} :
               /\ ds' = r.d
               /\ disk' = r.fs
               /\ ret' = [Ret("setPixelFormat", r, 0, "") EXCEPT !.arg = fmt]
        /\ UNCHANGED written
        /\ UNCHANGED_svc

CfgSetUID ==
    \E val \in CfgUidInputs :
        /\ \E r \in {setUID(ds, disk, val)} :
               /\ ds' = r.d
               /\ disk' = r.fs
               /\ ret' = [Ret("setUID", r, 0, "") EXCEPT !.arg = val]
        /\ UNCHANGED written
        /\ UNCHANGED_svc

NextCfg ==
    \/ CfgCreate
    \/ CfgSetShape
    \/ CfgSetPixelFormat
    \/ CfgSetUID
    \/ DsAddImage
    \/ DsClose
    \/ DsLoad

SpecCfg == Init /\ [][NextCfg]_vars

(***************************************************************************)
(* SpecAlign: datasets written in buffered and in direct I/O mode          *)
(***************************************************************************)
DioCreate ==
    \E path \in 1..MaxDirs, dio \in BOOLEAN :
        /\ FreeDirs(disk, path) # {}
        /\ \E r \in {create(ds, disk, path, dio, TRUE, 0)} :
               /\ ds' = r.d
               /\ disk' = r.fs
               /\ ret' = Ret("create", r, 0, "")
        /\ UNCHANGED written
        /\ UNCHANGED_svc

NextAlign ==
    \/ DioCreate
    \/ DsSetShape
    \/ DsAddImage
    \/ DsGetImage
    \/ DsClose

SpecAlign == Init /\ [][NextAlign]_vars

(***************************************************************************)
(* SpecCache: a client that creates, loads, closes and deletes more        *)
(* datasets than the descriptor cache is meant to hold                     *)
(***************************************************************************)
\* dataset directories of this specification: one more than the cache limit
CacheDirs == MAX_CACHE_SIZE + 1

\* the UUID the generator hands out for the dataset created at path
GuidOf(path) == UidDashed(ChDigit0 + path)
CacheGuids == {GuidOf(p) : p \in 1..CacheDirs}

InitCache ==
    /\ calc = NoCalc
    /\ ds = NewDataset
    /\ disk = [p \in 1..CacheDirs |-> NoDir]
    /\ ret = NoRet
    /\ written = [p \in 1..CacheDirs |-> NoGhost]
    /\ cache = <<>>
    /\ threads = NoThreads

CacheCreate ==
    \E path \in 1..CacheDirs :
        /\ \E r \in {SvcCreate(cache, disk, path, <<2, 2, 1, 1>>, "", GuidOf(path))} :
               /\ cache' = r.c
               /\ disk' = r.fs
               /\ ret' = [SvcRet("Create", r, r.val, <<>>, "") EXCEPT !.path = path]
        /\ UNCHANGED <<calc, threads, ds, written>>

CacheLoad ==
    \E path \in 1..CacheDirs :
        /\ \E r \in {SvcLoad(cache, disk, path, GuidOf(path))} :
               /\ cache' = r.c
               /\ disk' = r.fs
               /\ ret' = [SvcRet("Load", r, r.val, <<>>, "") EXCEPT !.path = path]
        /\ UNCHANGED <<calc, threads, ds, written>>

CacheClose ==
    \E h \in CacheGuids :
        /\ \E r \in {SvcClose(cache, disk, h)} :
               /\ cache' = r.c
               /\ disk' = r.fs
               /\ ret' = SvcRet("Close", r, h, <<>>, "")
        /\ UNCHANGED <<calc, threads, ds, written>>

CacheDelete ==
    \E h \in CacheGuids :
        /\ \E r \in {SvcDelete(cache, disk, h)} :
               /\ cache' = r.c
               /\ disk' = r.fs
               /\ ret' = SvcRet("Delete", r, h, <<>>, "")
        /\ UNCHANGED <<calc, threads, ds, written>>

CacheShutdown ==
    /\ \E r \in {SvcShutdown(cache, disk)} :
           /\ cache' = r.c
           /\ disk' = r.fs
           /\ ret' = SvcRet("Shutdown", r, <<>>, <<>>, "")
    /\ UNCHANGED <<calc, threads, ds, written>>

NextCache == CacheCreate \/ CacheLoad \/ CacheClose \/ CacheDelete \/ CacheShutdown

SpecCache == InitCache /\ [][NextCache]_vars

(***************************************************************************)
(* SpecThreads: two client threads inside the service at once.  The source *)
(* takes no lock in any service call, so the statements of the two calls   *)
(* interleave: Create is run as its admission checks (lines 123-136) and   *)
(* then the rest of the call (lines 139-180); Close is one step.           *)
(***************************************************************************)
ThreadIds == {1, 2}

\* the calls a thread may be sent into the service with
ThreadCall(op, path, h) == [op |-> op, path |-> path, handle |-> h]
ThreadCalls ==
    {ThreadCall("Create", p, <<>>) : p \in 1..CacheDirs}
        \cup {ThreadCall("Close", 0, h) : h \in CacheGuids}

\* the whole call, as one thread alone runs it
ThreadSerial(st, call) ==
    IF call.op = "Create"
    THEN SvcCreate(st.c, st.fs, call.path, <<2, 2, 1, 1>>, "", GuidOf(call.path))
    ELSE SvcClose(st.c, st.fs, call.handle)

\* Create, lines 123-136: the cache size check with cacheReduce, then the path check
createAdmit(c, fs, path, dims) ==
    IF path = 0 \/ dims <= 0 THEN SvcOut(c, fs, "DEVICE_INVALID_INPUT_PARAM", <<>>)
    ELSE LET full == Cardinality(DOMAIN c) >= MAX_CACHE_SIZE
             c1   == IF full THEN cacheReduce(c) ELSE c
         IN  IF full /\ CACHE_HARD_LIMIT /\ Cardinality(DOMAIN c1) >= MAX_CACHE_SIZE
             THEN SvcOut(c1, fs, "DEVICE_OUT_OF_MEMORY", <<>>)
             ELSE IF fs[path].exists
             THEN SvcOut(c1, fs, "DEVICE_DUPLICATE_PROPERTY", <<>>)
             ELSE SvcOut(c1, fs, "admitted", <<>>)

\* Create, lines 139-180: the file is created and the descriptor inserted
createBuild(c, fs, path, shape, meta, guid) ==
    Once({createOpened(c, path, shape, meta, guid, o) :
            o \in {create(NewDataset, fs, path, SvcDirectIo, TRUE, 0)}})

ThreadsIdle == threads.phase = "idle"
ThreadsDone == threads.phase = "run" /\ \A t \in ThreadIds : threads.pc[t] = "done"

\* the client builds up the cache from one thread
ThreadsSetup ==
    /\ ThreadsIdle
    /\ CacheCreate \/ CacheClose

\* two threads enter the service, each with a call of its own; the UUID generator
\* never hands out one UUID twice, so two Create calls are given different paths here
ThreadsFork ==
    /\ ThreadsIdle
    /\ \E a, b \in ThreadCalls :
           /\ (a.op = "Create" /\ b.op = "Create") => a.path # b.path
           /\ threads' = [phase |-> "run", base |-> [c |-> cache, fs |-> disk],
                          call |-> <<a, b>>, pc |-> <<"start", "start">>]
    /\ UNCHANGED <<calc, ds, disk, ret, written, cache>>

ThreadCreateAdmit ==
    \E t \in ThreadIds :
        /\ threads.phase = "run"
        /\ threads.pc[t] = "start"
        /\ threads.call[t].op = "Create"
        /\ \E r \in {createAdmit(cache, disk, threads.call[t].path, 4)} :
               /\ cache' = r.c
               /\ disk' = r.fs
               /\ IF r.code = "admitted"
                  THEN /\ threads' = [threads EXCEPT !.pc[t] = "admitted"]
                       /\ ret' = ret
                  ELSE /\ threads' = [threads EXCEPT !.pc[t] = "done"]
                       /\ ret' = [SvcRet("Create", r, <<>>, <<>>, "")
                                     EXCEPT !.path = threads.call[t].path]
        /\ UNCHANGED <<calc, ds, written>>

ThreadCreateBuild ==
    \E t \in ThreadIds :
        /\ threads.phase = "run"
        /\ threads.pc[t] = "admitted"
        /\ \E r \in {createBuild(cache, disk, threads.call[t].path, <<2, 2, 1, 1>>, "",
                                 GuidOf(threads.call[t].path))} :
               /\ cache' = r.c
               /\ disk' = r.fs
               /\ ret' = [SvcRet("Create", r, r.val, <<>>, "")
                             EXCEPT !.path = threads.call[t].path]
        /\ threads' = [threads EXCEPT !.pc[t] = "done"]
        /\ UNCHANGED <<calc, ds, written>>

ThreadClose ==
    \E t \in ThreadIds :
        /\ threads.phase = "run"
        /\ threads.pc[t] = "start"
        /\ threads.call[t].op = "Close"
        /\ \E r \in {SvcClose(cache, disk, threads.call[t].handle)} :
               /\ cache' = r.c
               /\ disk' = r.fs
               /\ ret' = SvcRet("Close", r, threads.call[t].handle, <<>>, "")
        /\ threads' = [threads EXCEPT !.pc[t] = "done"]
        /\ UNCHANGED <<calc, ds, written>>

NextThreads ==
    \/ ThreadsSetup
    \/ ThreadsFork
    \/ ThreadCreateAdmit
    \/ ThreadCreateBuild
    \/ ThreadClose

SpecThreads == InitCache /\ [][NextThreads]_vars

(***************************************************************************)
(* SpecDirs: a client that creates one dataset name again and again.  The  *)
(* name is passed either as the bare stem or spelled with the .g2s suffix  *)
(* of the directory; only the second spelling can name something that      *)
(* exists when Create tests the path.                                      *)
(***************************************************************************)
\* the path string the caller passes: the bare stem, which names nothing on disk
PlainName == "stem"

\* (stem, spelled with .g2s): a null path, the bare stem, the directory name
DirNames == {<<0, FALSE>>, <<1, FALSE>>, <<1, TRUE>>}
\* shapes handed to Create: four axes, one axis, none
DirShapeInputs == {<<2, 2, 1, 1>>, <<1>>, <<>>}

\* the descriptor keeps the path string as passed
entryNamed(r, guid, ext) ==
    IF r.code = "DEVICE_OK" /\ ~ext THEN [r EXCEPT !.c[guid].Path = PlainName] ELSE r

\* Create called with the bare stem: std::filesystem::exists(path) is false
SvcCreateNamed(c, fs, stem, ext, shape, meta, guid) ==
    IF ext \/ stem = 0 \/ Len(shape) <= 0 THEN SvcCreate(c, fs, stem, shape, meta, guid)
    ELSE LET full == Cardinality(DOMAIN c) >= MAX_CACHE_SIZE
             c1   == IF full THEN cacheReduce(c) ELSE c
         IN  IF full /\ CACHE_HARD_LIMIT /\ Cardinality(DOMAIN c1) >= MAX_CACHE_SIZE
             THEN SvcOut(c1, fs, "DEVICE_OUT_OF_MEMORY", <<>>)
             ELSE Once({entryNamed(r, guid, ext) :
                          r \in {createBuild(c1, fs, stem, shape, meta, guid)}})

\* the directories a run starts with: none, or <stem>_1.g2s left behind by an earlier run
InitDirs ==
    /\ calc = NoCalc
    /\ ds = NewDataset
    /\ disk \in {[p \in 1..CacheDirs |-> NoDir],
                 [p \in 1..CacheDirs |-> IF p = 2 THEN [exists |-> TRUE, files |-> <<>>]
                                         ELSE NoDir]}
    /\ ret = NoRet
    /\ written = [p \in 1..CacheDirs |-> NoGhost]
    /\ cache = <<>>
    /\ threads = NoThreads

DirCreate ==
    \E name \in DirNames, shape \in DirShapeInputs, meta \in MetaInputs,
       guid \in CacheGuids \ DOMAIN cache :
        /\ FreeDirs(disk, 1) # {}
        /\ \E r \in {SvcCreateNamed(cache, disk, name[1], name[2], shape, meta, guid)} :
               /\ cache' = r.c
               /\ disk' = r.fs
               /\ ret' = [SvcRet("Create", r, r.val, <<>>, "")
                             EXCEPT !.path = name[1], !.arg = <<name[2], shape>>]
        /\ UNCHANGED <<calc, threads, ds, written>>

NextDirs == DirCreate \/ CacheClose \/ CacheLoad \/ CacheShutdown

SpecDirs == InitDirs /\ [][NextDirs]_vars

(***************************************************************************)
(* SpecChunks: a client that loads a dataset directory holding several     *)
(* chunk files.  The files of a directory are kept in the order its        *)
(* enumeration yields them, which the file system is free to choose.       *)
(***************************************************************************)
\* the first chunk of a dataset as this engine writes it: one image, closed
WrittenChunk ==
    LET s1 == create(NewDataset, [p \in 1..MaxDirs |-> NoDir], 1, FALSE, TRUE, 0)
        s2 == setShape(s1.d, s1.fs, <<2, 2, 1, 1>>)
        s3 == setUID(s2.d, s2.fs, UidDashed(Ch1))
        s4 == addImage(s3.d, s3.fs, [id |-> 1, len |-> 3], "")
        s5 == close(s4.d, s4.fs)
    IN  s5.fs[1].files[1]

\* chunk k of that dataset, carrying the UID uid in its header
Chunk(k, uid) ==
    [WrittenChunk EXCEPT !.hdr[1].chunkindex = k, !.hdr[1].uid = uid,
                         !.tail = IF k = 0 THEN @ ELSE <<>>]

\* directory listings: chunks 0 and 1 in both orders, chunk 1 of another dataset behind
\* chunk 0, chunk 1 alone, chunk 0 alone
ChunkListings ==
    {<<Chunk(0, UidDashed(Ch1)), Chunk(1, UidDashed(Ch1))>>,
     <<Chunk(1, UidDashed(Ch1)), Chunk(0, UidDashed(Ch1))>>,
     <<Chunk(0, UidDashed(Ch1)), Chunk(1, UidDashed(ChUpperF))>>,
     <<Chunk(1, UidDashed(Ch1))>>,
     <<Chunk(0, UidDashed(Ch1))>>}

InitChunks ==
    /\ calc = NoCalc
    /\ ds = NewDataset
    /\ disk \in {[p \in 1..MaxDirs |-> [exists |-> TRUE, files |-> l]] : l \in ChunkListings}
    /\ ret = NoRet
    /\ written = [p \in 1..MaxDirs |-> NoGhost]
    /\ cache = <<>>
    /\ threads = NoThreads

NextChunks ==
    \/ DsLoad
    \/ DsClose
    \/ DsAddImage
    \/ DsGetImage
    \/ DsGetImageMetadata

SpecChunks == InitChunks /\ [][NextChunks]_vars

(***************************************************************************)
(* SpecLimit: a write session on a container whose maximum file size is    *)
(* within reach of two frames, with reads between the appends              *)
(***************************************************************************)
\* the container maximum of this specification, in bytes
LimitMaxFileSize == 870

LimitAddImage ==
    \E img \in ImageInputs :
        /\ isOpen(ds) => Len(ActiveFile(ds, disk).frames) < MaxImages
        /\ \E r \in {addImageLimited(ds, disk, img[1], img[2], LimitMaxFileSize)} :
               /\ ds' = r.d
               /\ disk' = r.fs
               /\ ret' = [Ret("addImage", r, 0, "") EXCEPT !.arg = <<img[1], img[2]>>]
               /\ written' = GhostAdd(written, ds, r.ok, img[1], img[2])
        /\ UNCHANGED_svc

NextLimit ==
    \/ DsCreate
    \/ DsSetShape
    \/ LimitAddImage
    \/ DsGetImage
    \/ DsGetImageMetadata

SpecLimit == Init /\ [][NextLimit]_vars

(***************************************************************************)
(* SpecSeq: a client that appends images and then reads them back one      *)
(* after the other without coordinates, in the session that wrote them or  *)
(* after closing and loading the dataset.  The ghost field reads counts    *)
(* the images the coordinate-less getImage has handed out since the        *)
(* dataset was opened.                                                     *)
(***************************************************************************)
SeqAddImage ==
    /\ isOpen(ds) => written[ds.dspath].reads = 0
    /\ DsAddImage

SeqLoad ==
    \E path \in 1..MaxDirs, dio \in DirectIoInputs :
        /\ \E r \in {load(ds, disk, path, dio)} :
               /\ ds' = r.d
               /\ disk' = r.fs
               /\ ret' = Ret("load", r, 0, "")
               /\ written' = IF r.ok THEN [written EXCEPT ![path].reads = 0] ELSE written
        /\ UNCHANGED_svc

SeqGetImage ==
    /\ \E r \in {getImage(ds, disk, <<>>)} :
           /\ ds' = r.d
           /\ disk' = r.fs
           /\ ret' = Ret("getImage", r, r.val, "")
           /\ written' = IF r.ok THEN [written EXCEPT ![ds.dspath].reads = @ + 1]
                         ELSE written
    /\ UNCHANGED_svc

SeqGetImageMetadata ==
    /\ \E r \in {getImageMetadata(ds, disk, <<>>)} :
           /\ ds' = r.d
           /\ disk' = r.fs
           /\ ret' = Ret("getImageMetadata", r, 0, r.val)
    /\ UNCHANGED written
    /\ UNCHANGED_svc

NextSeq ==
    \/ DsCreate
    \/ DsSetShape
    \/ DsSetUID
    \/ SeqAddImage
    \/ DsClose
    \/ SeqLoad
    \/ SeqGetImage
    \/ SeqGetImageMetadata

SpecSeq == Init /\ [][NextSeq]_vars

(***************************************************************************)
(* SpecDelete: the clients of SpecCache next to another process that       *)
(* removes datasets from the disk behind the service's back, and a Delete  *)
(* that may also be handed the null handle.                                *)
(***************************************************************************)
NullHandle == <<>>

DeleteCall ==
    \E h \in CacheGuids \cup {NullHandle} :
        /\ \E r \in {SvcDelete(cache, disk, h)} :
               /\ cache' = r.c
               /\ disk' = r.fs
               /\ ret' = SvcRet("Delete", r, h, <<>>, "")
        /\ UNCHANGED <<calc, threads, ds, written>>

\* another process removes a dataset that no descriptor holds open
DiskRemoved ==
    \E p \in 1..CacheDirs :
        /\ disk[p].exists
        /\ \A h \in DOMAIN cache : cache[h].Path = p => ~entryIsOpen(cache[h])
        /\ disk' = [disk EXCEPT ![p] = NoDir]
        /\ ret' = [NoRet EXCEPT !.op = "removed", !.path = p]
        /\ UNCHANGED <<calc, threads, ds, written, cache>>

NextDelete == CacheCreate \/ CacheLoad \/ CacheClose \/ DeleteCall \/ DiskRemoved

SpecDelete == InitCache /\ [][NextDelete]_vars

(***************************************************************************)
(* SpecAccept: datasets written with every kind of shape and pixel format  *)
(* the write path takes, closed, and loaded again                          *)
(***************************************************************************)
AcceptShapeInputs == {<<2, 2, 1, 1>>, <<1, 1>>}
AcceptFormatInputs == {<<8, 1>>, <<32, 1>>}

AcceptSetShape ==
    \E dims \in AcceptShapeInputs :
        /\ \E r \in {setShape(ds, disk, dims)} :
               /\ ds' = r.d
               /\ disk' = r.fs
               /\ ret' = [Ret("setShape", r, 0, "") EXCEPT !.arg = dims]
        /\ UNCHANGED written
        /\ UNCHANGED_svc

AcceptSetPixelFormat ==
    \E fmt \in AcceptFormatInputs :
        /\ \E r \in {setPixelFormat(ds, disk, fmt[1], fmt[2])} :
               /\ ds' = r.d
               /\ disk' = r.fs
               /\ ret' = [Ret("setPixelFormat", r, 0, "") EXCEPT !.arg = fmt]
        /\ UNCHANGED written
        /\ UNCHANGED_svc

NextAccept ==
    \/ CfgCreate
    \/ AcceptSetShape
    \/ AcceptSetPixelFormat
    \/ DsSetUID
    \/ DsAddImage
    \/ DsClose
    \/ DsLoad

SpecAccept == Init /\ [][NextAccept]_vars

(***************************************************************************)
(* SpecAxis: a client that names the axes and coordinates of a dataset,    *)
(* queries the descriptor, closes the dataset and loads it again           *)
(***************************************************************************)
\* size of the buffers the client passes to the queries
NameLength == 2

\* the shape of the dataset: two index axes of size 2, then the pixel axes
AxisShape == <<2, 2, 1, 1>>
\* axis numbers handed to the calls: the leading axis, the other index axis and the
\* first number past the last axis
AxisDimInputs == {0, 1, Len(AxisShape)}
\* coordinate numbers: a declared one and the first past the size of an index axis
AxisCoordInputs == {0, AxisShape[1]}

AxisCreate ==
    \E guid \in Guids \ DOMAIN cache :
        /\ \E r \in {SvcCreate(cache, disk, 1, AxisShape, "m1", guid)} :
               /\ cache' = r.c
               /\ disk' = r.fs
               /\ ret' = [SvcRet("Create", r, r.val, <<>>, "") EXCEPT !.path = 1]
        /\ UNCHANGED <<calc, threads, ds, written>>

ConfigureDimension ==
    \E h \in Guids, dimension \in AxisDimInputs :
        /\ \E r \in {SvcConfigureDimension(cache, disk, h, dimension, "ax", "d1")} :
               /\ cache' = r.c
               /\ disk' = r.fs
               /\ ret' = [SvcRet("ConfigureDimension", r, h, <<dimension>>, "")
                             EXCEPT !.arg = <<"ax", "d1">>]
               /\ written' = IF h \in DOMAIN cache
                             THEN GhostAxes(written, cache, r.c, h, r.code) ELSE written
        /\ UNCHANGED <<calc, threads, ds>>

ConfigureCoordinate ==
    \E h \in Guids, dimension \in AxisDimInputs, coordinate \in AxisCoordInputs :
        /\ \E r \in {SvcConfigureCoordinate(cache, disk, h, dimension, coordinate, "L1")} :
               /\ cache' = r.c
               /\ disk' = r.fs
               /\ ret' = [SvcRet("ConfigureCoordinate", r, h, <<dimension, coordinate>>, "")
                             EXCEPT !.arg = <<"L1">>]
               /\ written' = IF h \in DOMAIN cache
                             THEN GhostAxes(written, cache, r.c, h, r.code) ELSE written
        /\ UNCHANGED <<calc, threads, ds>>

GetNumberOfDimensions ==
    \E h \in Guids :
        /\ \E r \in {SvcGetNumberOfDimensions(cache, disk, h)} :
               /\ cache' = r.c
               /\ disk' = r.fs
               /\ ret' = [SvcRet("GetNumberOfDimensions", r, h, <<>>, "")
                             EXCEPT !.val = <<r.val>>]
        /\ UNCHANGED <<calc, threads, ds, written>>

GetDimension ==
    \E h \in Guids, dimension \in AxisDimInputs :
        /\ \E r \in {SvcGetDimension(cache, disk, h, dimension, NameLength, NameLength)} :
               /\ cache' = r.c
               /\ disk' = r.fs
               /\ ret' = [SvcRet("GetDimension", r, h, <<dimension>>, "")
                             EXCEPT !.val = r.val]
        /\ UNCHANGED <<calc, threads, ds, written>>

GetCoordinate ==
    \E h \in Guids, dimension \in AxisDimInputs, coordinate \in AxisCoordInputs :
        /\ \E r \in {SvcGetCoordinate(cache, disk, h, dimension, coordinate, NameLength)} :
               /\ cache' = r.c
               /\ disk' = r.fs
               /\ ret' = [SvcRet("GetCoordinate", r, h, <<dimension, coordinate>>, "")
                             EXCEPT !.val = <<r.val>>]
        /\ UNCHANGED <<calc, threads, ds, written>>

NextAxis ==
    \/ AxisCreate
    \/ ConfigureDimension
    \/ ConfigureCoordinate
    \/ GetNumberOfDimensions
    \/ GetDimension
    \/ GetCoordinate
    \/ GetSummaryMeta
    \/ Close
    \/ Shutdown
    \/ Load

SpecAxis == Init /\ [][NextAxis]_vars

(***************************************************************************)
(* SpecList: List applied to a folder whose entries the directory iterator *)
(* hands out in some order                                                 *)
(***************************************************************************)
\* G2SBigTiffStorage::G2SBigTiffStorage(): supportedFormats
supportedFormats == {"tif", "tiff", "tf8"}

\* std::transform(..., tolower) on the extensions that occur
ToLower(ext) == IF ext = "TIF" THEN "tif" ELSE ext

File(name, ext) == [kind |-> "file", name |-> name, ext |-> ext, sub |-> <<>>]
Folder(name, sub) == [kind |-> "dir", name |-> name, ext |-> "", sub |-> sub]

\* the entries a listed folder may hold: two datasets, a text file, a folder without
\* datasets
ListEntries ==
    {Folder("a.g2s", <<File("a.g2s.tif", "tif")>>),
     Folder("b.g2s", <<File("b.g2s.TIF", "TIF")>>),
     File("c.txt", "txt"),
     Folder("notes", <<>>)}

\* folder contents in enumeration order: every entry at most once
ListFolders ==
    {t \in SeqsUpTo(ListEntries, Cardinality(ListEntries)) :
        \A i, j \in 1..Len(t) : i # j => t[i] # t[j]}

\* sizes of the result buffer handed to List
ListMaxItems == {1, Cardinality(ListEntries)}

\* scanDir: the loop over the entries of a folder from entry k on; a sub-folder is
\* scanned and its result returned, a supported file is copied to position cpos
RECURSIVE scanDir(_, _, _, _, _, _)
scanDir(entries, k, prefix, listOfDatasets, maxItems, cpos) ==
    IF k > Len(entries) THEN [ok |-> TRUE, list |-> listOfDatasets]
    ELSE IF entries[k].kind = "dir"
    THEN scanDir(entries[k].sub, 1, Append(prefix, entries[k].name), listOfDatasets,
                 maxItems, cpos)
    ELSE IF entries[k].ext = ""
    THEN scanDir(entries, k + 1, prefix, listOfDatasets, maxItems, cpos)
    ELSE IF ToLower(entries[k].ext) \notin supportedFormats
    THEN scanDir(entries, k + 1, prefix, listOfDatasets, maxItems, cpos)
    ELSE IF cpos >= maxItems THEN [ok |-> FALSE, list |-> listOfDatasets]
    ELSE scanDir(entries, k + 1, prefix,
                 [listOfDatasets EXCEPT ![cpos + 1] = Append(prefix, entries[k].name)],
                 maxItems, cpos + 1)

\* List on an existing folder with a result buffer of maxItems empty slots
SvcList(entries, maxItems) ==
    IF maxItems <= 0 THEN [code |-> "DEVICE_INVALID_INPUT_PARAM", list |-> <<>>]
    ELSE LET r == scanDir(entries, 1, <<>>, [i \in 1..maxItems |-> <<>>], maxItems, 0)
         IN  [code |-> IF r.ok THEN "DEVICE_OK" ELSE "DEVICE_SEQUENCE_TOO_LARGE",
              list |-> r.list]

InitList ==
    /\ calc \in {[st |-> "drawn", folder |-> t, maxItems |-> m, code |-> "", list |-> <<>>] :
                    t \in ListFolders, m \in ListMaxItems}
    /\ ds = NewDataset
    /\ disk = [p \in 1..MaxDirs |-> NoDir]
    /\ ret = NoRet
    /\ written = [p \in 1..MaxDirs |-> NoGhost]
    /\ cache = <<>>
    /\ threads = NoThreads

List ==
    /\ calc.st = "drawn"
    /\ \E r \in {SvcList(calc.folder, calc.maxItems)} :
           calc' = [calc EXCEPT !.st = "listed", !.code = r.code, !.list = r.list]
    /\ UNCHANGED <<ds, disk, ret, written, cache, threads>>

NextList == List

SpecList == InitList /\ [][NextList]_vars

\* the append index a coordinate addresses in the dataset object d
IndexOf(d, coord) == calcImageIndex(d.shape, coord).ind

\* the coordinate addresses an image the client appended to d's directory
AddressesWritten(d, coord) ==
    /\ coord # <<>>
    /\ FullLength(d.shape, coord)
    /\ ValidCoord(d.shape, coord)
    /\ IndexOf(d, coord) < Len(written[d.dspath].images)

WrittenAt(d, coord) == written[d.dspath].images[IndexOf(d, coord) + 1]

\* C1: on a loaded dataset, getImage and getImageMetadata by the coordinate of an
\* appended image succeed and return the pixels and the metadata string that were
\* handed to addImage
RoundTripAfterLoad ==
    (/\ ret.op \in {"getImage", "getImageMetadata"}
     /\ isOpen(ds)
     /\ ~ds.writemode
     /\ AddressesWritten(ds, ret.coord)
     /\ IndexOf(ds, ret.coord) < written[ds.dspath].sealed)
        => /\ ret.ok
           /\ ret.op = "getImage" => ret.pix = WrittenAt(ds, ret.coord).pix
           /\ ret.op = "getImageMetadata" => ret.str = WrittenAt(ds, ret.coord).meta

\* C2: on a dataset open for writing, getImage by the coordinate of any appended image
\* succeeds and returns the pixels handed to that addImage, whatever was read before
ReadsBackWhatWasAppended ==
    (/\ ret.op = "getImage"
     /\ isOpen(ds)
     /\ ds.writemode
     /\ AddressesWritten(ds, ret.coord))
        => /\ ret.ok
           /\ ret.pix = WrittenAt(ds, ret.coord).pix

\* C4: a successful load reports the UID, shape, chunk size, bits per sample, samples
\* per pixel and summary metadata the dataset had when its write session closed it
LoadRecoversConfiguration ==
    (ret.op = "load" /\ ret.ok /\ written[ds.dspath].closed # <<>>)
        => Config(ds) = written[ds.dspath].closed[1]

\* C5: a chunk file whose header records chunk size k > 0 never holds more than k
\* images, and a directory of n images in chunks of k has ceil(n / k) chunk files
ChunkCount(n, k) == (n + k - 1) \div k
ChunksHoldAtMostChunkSize ==
    \A p \in 1..MaxDirs : \A i \in 1..Len(disk[p].files) :
        LET f == disk[p].files[i]
        IN  (f.hdr # <<>> /\ f.hdr[1].chunksize > 0)
                => /\ Len(f.frames) <= f.hdr[1].chunksize
                   /\ Len(disk[p].files)
                          = Max2(1, ChunkCount(Len(written[p].images), f.hdr[1].chunksize))

\* C6: while a dataset is open for writing, the UID, shape and chunk size in every
\* committed chunk header are the dataset's current UID, shape and chunk size
HeadersMatchDataset ==
    (isOpen(ds) /\ ds.writemode)
        => \A i \in 1..Len(disk[ds.dspath].files) :
               LET f == disk[ds.dspath].files[i]
               IN  f.hdr # <<>>
                       => /\ f.hdr[1].uid = ds.datasetuid
                          /\ f.hdr[1].shape = ds.shape
                          /\ f.hdr[1].chunksize = ds.chunksize

(***************************************************************************)
(* Claims about the service                                                *)
(***************************************************************************)
\* the dataset object behind an open handle
HandleOpen(h) == h \in DOMAIN cache /\ entryIsOpen(cache[h])
FileOf(h) == cache[h].FileHandle[1]

\* the index-axis entries of a coordinate array handed to the service: the array as it
\* is, or without its two zero pixel-axis entries when it has one entry per shape axis
IndexPart(shape, coords) ==
    IF Len(coords) = Len(shape) /\ Len(coords) >= 2
       /\ coords[Len(coords) - 1] = 0 /\ coords[Len(coords)] = 0
    THEN SubSeq(coords, 1, Len(coords) - 2)
    ELSE coords

\* C3: a Load of the path of a dataset (with index axes) that this service created
\* under handle h and that is closed succeeds and returns h
LoadAfterCloseReturnsHandle ==
    (/\ ret.op = "Load"
     /\ ret.path # 0
     /\ written[ret.path].closed # <<>>
     /\ Len(written[ret.path].closed[1].shape) >= 3
     /\ ~(~ret.ok /\ HandleOpen(written[ret.path].closed[1].uid)))
        => /\ ret.ok
           /\ ret.handle = written[ret.path].closed[1].uid

\* C7: AddImage on a dataset open for writing, with every non-leading coordinate in
\* range and the leading coordinate at or beyond the leading axis size, returns
\* DEVICE_OK
LeadingOverflow(shape, coord) ==
    /\ FullLength(shape, coord)
    /\ ValidCoord(shape, coord)
    /\ Len(coord) >= 1
    /\ coord[1] >= shape[1]

LeadingOverflowAccepted ==
    (/\ ret.op = "AddImage"
     /\ HandleOpen(ret.handle)
     /\ FileOf(ret.handle).writemode
     /\ LeadingOverflow(FileOf(ret.handle).shape,
                        IndexPart(FileOf(ret.handle).shape, ret.coord)))
        => ret.code = "DEVICE_OK"

\* C8: AddImage on a dataset (with index axes) open for writing rejects a coordinate
\* tuple exactly when it has more entries than index axes or a non-leading entry at or
\* beyond its axis size, and calcImageIndex throws in exactly the same cases
RangeErrorExactly ==
    /\ (/\ ret.op = "AddImage"
        /\ HandleOpen(ret.handle)
        /\ FileOf(ret.handle).writemode
        /\ Len(FileOf(ret.handle).shape) >= 3)
           => ((ret.code # "DEVICE_OK")
                  <=> ~ValidCoord(FileOf(ret.handle).shape,
                                  IndexPart(FileOf(ret.handle).shape, ret.coord)))
    /\ (calc.st \in {"indexed", "inverted"})
           => (calc.ok <=> ValidCoord(calc.shape, calc.coord))

(***************************************************************************)
(* Claims about incomplete and truncated datasets                          *)
(***************************************************************************)
\* number of images the declared shape has room for: the product of the index axes
ShapeProduct(shape) == strideLoop(shape, 1, 1)

\* the directory holds exactly the m images its write session appended, m below the
\* declared number
Incomplete(d) ==
    /\ written[d.dspath].sealed >= 1
    /\ written[d.dspath].sealed = Len(written[d.dspath].images)
    /\ written[d.dspath].sealed < ShapeProduct(d.shape)

\* C11: a load of a dataset closed after m images, m below the declared number, leaves
\* the dataset with an image count of m, and getImage by an in-shape coordinate whose
\* index is m or more fails
IncompleteLoadReportsPrefix ==
    /\ (ret.op = "load" /\ ret.ok /\ Incomplete(ds))
           => ds.imgcounter = written[ds.dspath].sealed
    /\ (/\ ret.op = "getImage"
        /\ isOpen(ds) /\ ~ds.writemode /\ Incomplete(ds)
        /\ ret.coord # <<>>
        /\ ValidCoord(ds.shape, ret.coord)
        /\ IndexOf(ds, ret.coord) >= written[ds.dspath].sealed)
           => ~ret.ok

\* images of a file that are completely on disk
IntactCount(f) == Cardinality({k \in 1..Len(f.frames) : FrameIntact(f, f.frames[k])})

\* the dataset object names a directory whose write session was killed and whose header
\* carries what a load needs (a UID and a shape with index axes)
Truncated(d) ==
    /\ d.dspath # 0
    /\ written[d.dspath].crashed
    /\ disk[d.dspath].files[1].hdr # <<>>
    /\ disk[d.dspath].files[1].hdr[1].uid # <<>>
    /\ Len(disk[d.dspath].files[1].hdr[1].shape) >= 3

\* C12: a load of a truncated dataset succeeds and yields exactly the images that are
\* completely on disk, and getImage of the last of them returns the bytes appended
TruncatedLoadYieldsPrefix ==
    /\ (ret.op = "load" /\ Truncated(ds))
           => /\ ret.ok
              /\ ds.imgcounter = IntactCount(disk[ds.dspath].files[1])
    /\ (/\ ret.op = "getImage"
        /\ isOpen(ds) /\ ~ds.writemode /\ Truncated(ds)
        /\ ret.coord # <<>>
        /\ FullLength(ds.shape, ret.coord)
        /\ ValidCoord(ds.shape, ret.coord)
        /\ IndexOf(ds, ret.coord) + 1 = IntactCount(disk[ds.dspath].files[1]))
           => /\ ret.ok
              /\ ret.pix = written[ds.dspath].images[IndexOf(ds, ret.coord) + 1].pix

(***************************************************************************)
(* Claims about the legality of the configuration and write calls          *)
(***************************************************************************)
WriteOps == {"setShape", "setPixelFormat", "setUID", "setMetadata", "addImage"}

\* C13: on a dataset opened by load, every setShape, setPixelFormat, setUID, setMetadata
\* and addImage call throws and leaves the dataset object and all files as they were
ReadModeIsImmutable ==
    [][(isOpen(ds) /\ ~ds.writemode /\ ret'.op \in WriteOps)
           => (~ret'.ok /\ ds' = ds /\ disk' = disk)]_vars

\* C14: a close changes the files only when it ends the write session that created the
\* dataset, which happens once per dataset; a load changes no file
SummaryOnlyAtCreatorsClose ==
    [][/\ (ret'.op = "close" /\ disk' # disk)
              => (isOpen(ds) /\ ds.writemode /\ written[ds.dspath].closed = <<>>)
       /\ (ret'.op = "load") => disk' = disk]_vars

\* C14 witness: a dataset with summary metadata on disk was loaded and closed again
SummaryOnlyAtCreatorsCloseWitness ==
    /\ ret.op = "close"
    /\ ~ds.writemode
    /\ ds.dspath # 0
    /\ written[ds.dspath].closed # <<>>
    /\ written[ds.dspath].closed[1].uid # <<>>
    /\ Len(written[ds.dspath].closed[1].shape) >= 3
    /\ disk[ds.dspath].files[1].tail # <<>>

\* C15: a Close repeated on the same handle returns DEVICE_OK and leaves the cache and
\* the files as they were; a close repeated on the same dataset object returns normally
\* and leaves the object and the files as they were
SecondCloseIsNoOp ==
    [][/\ (ret'.op = "CloseAgain") => (ret'.ok /\ cache' = cache /\ disk' = disk)
       /\ (ret'.op = "closeAgain") => (ret'.ok /\ ds' = ds /\ disk' = disk)]_vars

\* C15 witness: Close was repeated on the handle of a dataset this service created and
\* closed, whose summary metadata the first Close had written
SecondCloseIsNoOpWitness ==
    /\ ret.op = "CloseAgain"
    /\ ret.handle \in DOMAIN cache
    /\ ~entryIsOpen(cache[ret.handle])
    /\ disk[cache[ret.handle].Path].files[1].tail # <<>>

\* C16: setShape returns normally exactly when the dataset is in write mode, dims has
\* at least 2 entries and either no image has been added or dims is the current shape;
\* once an image has been added the shape never changes
SetShapeLegalExactly ==
    [][(ret'.op = "setShape")
           => /\ ret'.ok <=> (/\ ds.writemode
                              /\ Len(ret'.arg) >= 2
                              /\ (ds.imgcounter = 0 \/ ret'.arg = ds.shape))
              /\ (ds.imgcounter > 0) => (ds'.shape = ds.shape)]_vars

\* C17: setPixelFormat throws and changes nothing unless bits is 8 or 16 and samples is
\* 1..4; after the first image it returns normally only for the current format, and
\* never changes it
FormatSupported(fmt) == fmt[1] \in {8, 16} /\ fmt[2] \in 1..4

SetPixelFormatLegalExactly ==
    [][(ret'.op = "setPixelFormat")
           => /\ (~FormatSupported(ret'.arg))
                     => (~ret'.ok /\ ds'.bitdepth = ds.bitdepth /\ ds'.samples = ds.samples)
              /\ (ds.imgcounter > 0)
                     => /\ ret'.ok <=> (/\ FormatSupported(ret'.arg)
                                        /\ ds.writemode
                                        /\ ret'.arg = <<ds.bitdepth, ds.samples>>)
                        /\ ds'.bitdepth = ds.bitdepth
                        /\ ds'.samples = ds.samples]_vars

\* C18: setUID returns normally only in write mode before the first image; after the
\* first image it throws and leaves the dataset UID and every file as they were
SetUidOnlyBeforeFirstImage ==
    [][(ret'.op = "setUID")
           => /\ ret'.ok => (ds.writemode /\ ds.imgcounter = 0)
              /\ (ds.imgcounter > 0)
                     => (~ret'.ok /\ ds'.datasetuid = ds.datasetuid /\ disk' = disk)]_vars

\* hexadecimal digits, the lower-case ones, and the lower-case spelling of a string
IsHex(c) == c \in 48..57 \/ c \in 65..70 \/ c \in 97..102
IsLowerHex(c) == c \in 48..57 \/ c \in 97..102
LowerCase(val) == [i \in 1..Len(val) |-> IF val[i] \in 65..90 THEN val[i] + 32 ELSE val[i]]

ValidUid(val) ==
    \/ Len(val) = 32 /\ \A i \in 1..32 : IsHex(val[i])
    \/ /\ Len(val) = 36
       /\ \A i \in 1..36 : IF i \in DashAt THEN val[i] = ChDash ELSE IsHex(val[i])

Canonical(uid) ==
    /\ Len(uid) = 36
    /\ \A i \in 1..36 : IF i \in DashAt THEN uid[i] = ChDash ELSE IsLowerHex(uid[i])

Undashed(val) == SelectSeq(val, LAMBDA c : c # ChDash)

\* C19: in write mode before the first image, setUID of a non-empty string returns
\* normally exactly when the string is a valid UUID spelling, a rejected string leaves
\* the UID unchanged, and the UID stored is the dashed lower-case form of the string
SetUidAcceptsExactlyValid ==
    [][(ret'.op = "setUID" /\ ret'.arg # <<>> /\ ds.writemode /\ ds.imgcounter = 0)
           => /\ ret'.ok <=> ValidUid(ret'.arg)
              /\ (~ret'.ok) => (ds'.datasetuid = ds.datasetuid)
              /\ ret'.ok => /\ Canonical(ds'.datasetuid)
                            /\ Undashed(ds'.datasetuid) = LowerCase(Undashed(ret'.arg))]_vars

\* C20: once an image has been added to a dataset open for writing, the write position
\* and the length of the chunk file are multiples of the alignment boundary (the sector
\* size with direct I/O, 2 without)
WritePositionAligned ==
    (isOpen(ds) /\ ds.writemode /\ ds.imgcounter > 0)
        => /\ ds.io.writepos % AlignSize(ds) = 0
           /\ ActiveFile(ds, disk).size % AlignSize(ds) = 0

\* byte range of a frame: its descriptor, then its strip
FrameEnd(fr) == fr.dataoffset + fr.datalen

StrictlyIncreasing(q) == \A i, j \in 1..Len(q) : i < j => q[i] < q[j]

\* C21: the IFD offsets in the open dataset's offset cache are strictly increasing, and
\* in every file each frame starts at or behind the end of every frame appended before it
OffsetsMonotonic ==
    /\ isOpen(ds) => StrictlyIncreasing(ds.io.ifdcache)
    /\ \A p \in 1..MaxDirs : \A k \in 1..Len(disk[p].files) :
           LET fr == disk[p].files[k].frames
           IN  \A i, j \in 1..Len(fr) :
                   i < j => (fr[i].pos < fr[j].pos /\ FrameEnd(fr[i]) <= fr[j].pos)

\* C21 witness: two images have been appended to the open dataset
OffsetsMonotonicWitness ==
    /\ isOpen(ds)
    /\ Len(ds.io.ifdcache) = 2
    /\ Len(ActiveFile(ds, disk).frames) = 2
    /\ ds.io.ifdcache[1] = ActiveFile(ds, disk).frames[1].pos
    /\ ds.io.ifdcache[2] = ActiveFile(ds, disk).frames[2].pos

\* C22: an addImage that succeeds raises the image count by one and the image it wrote is
\* the one with the index the count had before the call, in the file and in the offset
\* cache; an addImage that fails leaves the image count and the offset cache alone
AddImageInCallerOrder ==
    [][(ret'.op = "addImage") =>
          IF ret'.ok
          THEN /\ ds'.imgcounter = ds.imgcounter + 1
               /\ Len(ActiveFile(ds', disk').frames) = ds.imgcounter + 1
               /\ Len(ds'.io.ifdcache) = ds.imgcounter + 1
               /\ ds'.io.ifdcache[ds.imgcounter + 1]
                      = ActiveFile(ds', disk').frames[ds.imgcounter + 1].pos
          ELSE /\ ds'.imgcounter = ds.imgcounter
               /\ ds'.io.ifdcache = ds.io.ifdcache]_vars

\* descriptors of the handle map whose dataset is closed / open
ClosedHandles(c) == {h \in DOMAIN c : ~entryIsOpen(c[h])}
OpenHandles(c) == DOMAIN c \ ClosedHandles(c)

\* C23: the handle map never holds more than MAX_CACHE_SIZE descriptors; a Create of a
\* new dataset or a Load of an existing one that finds the map full evicts every closed
\* descriptor and, when the map is full of open ones, fails with the out-of-resources
\* code and inserts nothing
CacheIsBounded ==
    [][/\ Cardinality(DOMAIN cache') <= MAX_CACHE_SIZE
       /\ (/\ Cardinality(DOMAIN cache) >= MAX_CACHE_SIZE
           /\ \/ ret'.op = "Create" /\ ~disk[ret'.path].exists
              \/ ret'.op = "Load" /\ disk[ret'.path].exists)
              => /\ ClosedHandles(cache) \cap DOMAIN cache' = {}
                 /\ Cardinality(OpenHandles(cache)) >= MAX_CACHE_SIZE
                        => (ret'.code = "DEVICE_OUT_OF_MEMORY" /\ cache' = cache)]_vars

\* C24: a descriptor whose dataset is open stays in the handle map, open and as it was,
\* through every Create and Load; only Delete and Shutdown remove it and only Close,
\* Delete and Shutdown close it
OnlyClosedAreEvicted ==
    [][\A h \in OpenHandles(cache) :
          /\ ret'.op \in {"Create", "Load"} => (h \in DOMAIN cache' /\ cache'[h] = cache[h])
          /\ h \in DOMAIN cache' \/ ret'.op \in {"Delete", "Shutdown"}
          /\ h \in DOMAIN cache' => (entryIsOpen(cache'[h]) \/ ret'.op = "Close")]_vars

\* C24 witness: a Create on a full map has evicted the closed descriptor of a dataset
\* that is still on disk, and the open descriptor it found is still there
OnlyClosedAreEvictedWitness ==
    /\ ret.op = "Create"
    /\ ret.code = "DEVICE_OK"
    /\ Cardinality(OpenHandles(cache)) = MAX_CACHE_SIZE
    /\ \E p \in 1..CacheDirs : disk[p].exists /\ GuidOf(p) \notin DOMAIN cache

\* what a query answers: its status code and the value it hands back
Reply(r) == <<r.code, r.val>>

\* the answers of the descriptor queries on handle h for the arguments of SpecAxis
DescriptorAnswers(c, fs, h) ==
    [num    |-> Reply(SvcGetNumberOfDimensions(c, fs, h)),
     meta   |-> Reply(SvcGetSummaryMeta(c, fs, h)),
     dims   |-> [d \in AxisDimInputs |->
                    Reply(SvcGetDimension(c, fs, h, d, NameLength, NameLength))],
     coords |-> [x \in AxisDimInputs \X AxisCoordInputs |->
                    Reply(SvcGetCoordinate(c, fs, h, x[1], x[2], NameLength))]]

\* every descriptor query with arguments inside the shape succeeds on handle h
QueriesSucceed(c, fs, h) ==
    LET a == DescriptorAnswers(c, fs, h)
    IN  /\ a.num = <<"DEVICE_OK", Len(AxisShape)>>
        /\ a.meta[1] = "DEVICE_OK"
        /\ \A d \in AxisDimInputs : d < Len(AxisShape) => a.dims[d][1] = "DEVICE_OK"
        /\ \A x \in AxisDimInputs \X AxisCoordInputs :
               (x[1] < Len(AxisShape) /\ x[2] < AxisShape[x[1] + 1])
                   => a.coords[x][1] = "DEVICE_OK"

IsErrorCode(code) == code \in {"DEVICE_INVALID_INPUT_PARAM", "DEVICE_OUT_OF_MEMORY", "nullptr"}

\* C26: AddImage, GetImage and GetImageMeta on a handle whose dataset has been closed
\* return an error code and leave the handle map and the disk alone, and a Close of such
\* a handle releases nothing a second time
NoUseAfterClose ==
    [][(ret'.handle \in DOMAIN cache /\ ~entryIsOpen(cache[ret'.handle]))
          => /\ ret'.op \in {"AddImage", "GetImage", "GetImageMeta"}
                    => (IsErrorCode(ret'.code) /\ cache' = cache /\ disk' = disk)
             /\ ret'.op = "Close" => (cache' = cache /\ disk' = disk)]_vars

\* the datasets of a folder: its sub-folders that hold a file of a supported format
DatasetsIn(folder) ==
    {folder[k].name : k \in {i \in 1..Len(folder) :
        /\ folder[i].kind = "dir"
        /\ \E j \in 1..Len(folder[i].sub) :
               ToLower(folder[i].sub[j].ext) \in supportedFormats}}

\* the slots of the result buffer List has filled
FilledSlots(list) == {i \in 1..Len(list) : list[i] # <<>>}

\* C27: when the result buffer has room for every entry of the folder, List succeeds
\* and reports every dataset of the folder in exactly one slot and nothing else,
\* whatever the order in which the folder's entries are enumerated
ListReportsEveryDataset ==
    (calc.st = "listed" /\ calc.maxItems >= Cardinality(ListEntries))
        => /\ calc.code = "DEVICE_OK"
           /\ {calc.list[i][1] : i \in FilledSlots(calc.list)} = DatasetsIn(calc.folder)
           /\ Cardinality(FilledSlots(calc.list)) = Cardinality(DatasetsIn(calc.folder))

(***************************************************************************)
(* C28: service calls made from several threads are serialized: when two   *)
(* calls that ran at the same time have both returned, the handle map and  *)
(* the datasets on disk are what running the two calls one after the       *)
(* other, in one order or the other, leaves.                               *)
(***************************************************************************)
SerialOutcome(base, first, second) ==
    LET r1 == ThreadSerial(base, first)
        r2 == ThreadSerial([c |-> r1.c, fs |-> r1.fs], second)
    IN  <<r2.c, r2.fs>>

CallsAreSerialized ==
    ThreadsDone =>
        <<cache, disk>> \in {SerialOutcome(threads.base, threads.call[1], threads.call[2]),
                             SerialOutcome(threads.base, threads.call[2], threads.call[1])}

(***************************************************************************)
(* C29: axis info round trip.  The axis names and descriptions and the     *)
(* coordinate labels of the non-pixel axes that were configured while the  *)
(* dataset was open are what GetDimension and GetCoordinate return on the  *)
(* handle a later Load of the dataset hands out; and a ConfigureDimension  *)
(* call repeated with the same arguments changes nothing.                  *)
(***************************************************************************)
LoadedAxesAnswer(c, fs, h, axes) ==
    \A d \in 0..(Len(axes) - 1) :
        /\ SvcGetDimension(c, fs, h, d, NameLength, NameLength).val
               = <<axes[d + 1].Name, axes[d + 1].Metadata>>
        /\ d < Len(axes) - 2 =>
               \A k \in 0..(Len(axes[d + 1].Coordinates) - 1) :
                   SvcGetCoordinate(c, fs, h, d, k, NameLength).val
                       = axes[d + 1].Coordinates[k + 1]

AxisInfoRoundTrip ==
    [][/\ (ret'.op = "Load" /\ ret'.ok /\ written[ret'.path].axes # <<>>)
              => LoadedAxesAnswer(cache', disk', ret'.handle, written[ret'.path].axes)
       /\ (/\ ret.op = "ConfigureDimension" /\ ret.ok
           /\ ret'.op = "ConfigureDimension"
           /\ ret'.handle = ret.handle /\ ret'.coord = ret.coord /\ ret'.arg = ret.arg)
              => (cache' = cache /\ disk' = disk)]_vars

(***************************************************************************)
(* C30: ConfigureCoordinate on the leading axis accepts a coordinate       *)
(* number at or past the declared size of that axis and stores the label   *)
(* for GetCoordinate; on every other non-pixel axis such a coordinate      *)
(* number is rejected.                                                     *)
(***************************************************************************)
AxisSize(c, h, d) == Len(c[h].Dimensions[d + 1].Coordinates)
IsNonPixelAxis(c, h, d) == d >= 0 /\ d < Len(c[h].Dimensions) - 2

LeadingAxisOverflows ==
    [][(/\ ret'.op = "ConfigureCoordinate"
        /\ ret'.handle \in DOMAIN cache
        /\ IsNonPixelAxis(cache, ret'.handle, ret'.coord[1])
        /\ ret'.coord[2] >= AxisSize(cache, ret'.handle, ret'.coord[1]))
           => IF ret'.coord[1] = 0
              THEN /\ ret'.ok
                   /\ SvcGetCoordinate(cache', disk', ret'.handle, 0, ret'.coord[2],
                                       NameLength).val = ret'.arg[1]
              ELSE ~ret'.ok /\ cache' = cache]_vars

(***************************************************************************)
(* C31: Create never overwrites or reuses a dataset.  A Create call with a *)
(* path, a shape of two or more axes and room in the descriptor cache      *)
(* succeeds unless its path string names something that exists, in which   *)
(* case it fails and changes nothing on disk; a successful call makes      *)
(* exactly one new directory, the first of <stem>.g2s, <stem>_1.g2s, ...   *)
(* that did not exist, and leaves every other directory as it was.         *)
(***************************************************************************)
\* a Create step whose arguments are valid and which the cache has room for
CreateAdmitted ==
    /\ ret'.op = "Create"
    /\ ret'.path # 0
    /\ Len(ret'.arg[2]) >= 2
    /\ Cardinality(DOMAIN cacheReduce(cache)) < MAX_CACHE_SIZE

\* the path string of the step names something on disk
PathExists == ret'.arg[1] /\ disk[ret'.path].exists

NewDirs == {p \in DOMAIN disk : ~disk[p].exists /\ disk'[p].exists}

MadeFirstFree ==
    \E p \in DOMAIN disk :
        /\ NewDirs = {p}
        /\ \A q \in 1..(p - 1) : disk[q].exists
        /\ cache'[ret'.handle].FileHandle[1].dspath = p
        /\ \A q \in DOMAIN disk : disk[q].exists => disk'[q] = disk[q]

InvalidCreateIsRejected ==
    [][(ret'.op = "Create" /\ (ret'.path = 0 \/ Len(ret'.arg[2]) < 2))
          => /\ ret'.code = "DEVICE_INVALID_INPUT_PARAM"
             /\ disk' = disk
             /\ DOMAIN cache' \subseteq DOMAIN cache]_vars

(***************************************************************************)
(* C32: load of a directory of chunk files succeeds whatever order the     *)
(* enumeration yields them in, and opens chunk 0, exactly when chunk 0 is  *)
(* among them and every chunk carries the UID, shape and pixel format of   *)
(* chunk 0; otherwise it fails.                                            *)
(***************************************************************************)
ChunkZeros(files) == {k \in 1..Len(files) : files[k].hdr[1].chunkindex = 0}

ChunksAgree(files) ==
    \A k \in 1..Len(files), z \in ChunkZeros(files) :
        /\ files[k].hdr[1].uid = files[z].hdr[1].uid
        /\ files[k].hdr[1].shape = files[z].hdr[1].shape
        /\ files[k].frames[1].bits = files[z].frames[1].bits

LoadOrdersChunks ==
    [][(ret'.op = "load" /\ ~isOpen(ds))
          => LET files == disk[1].files
             IN  /\ ret'.ok <=> (ChunkZeros(files) # {} /\ ChunksAgree(files))
                 /\ ret'.ok => /\ ds'.io.header.chunkindex = 0
                               /\ Len(ds'.datachunks) = Len(files)]_vars

(***************************************************************************)
(* C33: addImage is rejected, with nothing written and no state changed,   *)
(* whenever the write position plus the whole frame (descriptor with its   *)
(* metadata, pixels, padding) would pass the container maximum, wherever   *)
(* reads have left the file cursor; so no chunk file grows past it.        *)
(***************************************************************************)
\* where the frame of the next append starts: behind the header on an empty file
AppendPos(d) == IF d.io.writepos = 0 THEN G2STIFF_HEADER_SIZE ELSE d.io.writepos

FrameBytes(d, buff, meta) ==
    calcDescSize(d, MetaBytes(meta), getTagCount(meta)) + AlignUp(buff.len, AlignSize(d))

FileSizeLimitKept ==
    [][/\ (/\ ret'.op = "addImage"
           /\ isOpen(ds)
           /\ AppendPos(ds) + FrameBytes(ds, ret'.arg[1], ret'.arg[2]) > LimitMaxFileSize)
              => (~ret'.ok /\ ds' = ds /\ disk' = disk)
       /\ \A p \in DOMAIN disk' : \A k \in 1..Len(disk'[p].files) :
              disk'[p].files[k].size <= LimitMaxFileSize]_vars

(***************************************************************************)
(* C34: an append to a chunk whose last frame's IFD is not cached (the     *)
(* chunk was reopened) patches that frame's next-IFD field to the write    *)
(* position W and nothing else of any earlier frame, leaves the read and   *)
(* the write cursor where they were, and writes the new frame at W.        *)
(***************************************************************************)
\* the append finds a last frame on file and no cached IFD of it
LastIfdUncached(d) ==
    isOpen(d) /\ d.io.writepos # 0 /\ d.io.lastifd = <<>> /\ d.io.lastifdpos > 0

PatchKeepsCursors(d, fs) ==
    LET r == updateLastIFD(d, fs)
    IN  r.ok => (r.d.io.readpos = d.io.readpos /\ r.d.io.writepos = d.io.writepos)

LastIfdPatchedInPlace ==
    [][(ret'.op = "addImage" /\ ret'.ok /\ LastIfdUncached(ds))
          => LET f  == ActiveFile(ds, disk)
                 g  == ActiveFile(ds', disk')
                 W  == ds.io.writepos
             IN  /\ PatchKeepsCursors(ds, disk)
                 /\ Len(g.frames) = Len(f.frames) + 1
                 /\ g.frames[Len(g.frames)].pos = W
                 /\ ds'.io.readpos = ds.io.readpos
                 /\ \A k \in 1..Len(f.frames) :
                        IF f.frames[k].pos = ds.io.lastifdpos
                        THEN g.frames[k] = [f.frames[k] EXCEPT !.next = W]
                        ELSE g.frames[k] = f.frames[k]]_vars

\* C34 witness: a reopened chunk took a second frame and the first frame points at it
LastIfdPatchedInPlaceWitness ==
    /\ ret.op = "addImage" /\ ret.ok
    /\ isOpen(ds) /\ ~ds.writemode
    /\ Len(ActiveFile(ds, disk).frames) = 2
    /\ ActiveFile(ds, disk).frames[1].next = ActiveFile(ds, disk).frames[2].pos
    /\ ActiveFile(ds, disk).frames[2].pos > ActiveFile(ds, disk).frames[1].dataoffset

(***************************************************************************)
(* C35: sequential reading.  On an open dataset with n images the k-th     *)
(* coordinate-less getImage in a row returns image k-1 in append order     *)
(* for k <= n and fails for k = n+1; a coordinate-less getImageMetadata    *)
(* returns the metadata of the current image (image 0 before any getImage, *)
(* the image returned last otherwise) and leaves the next getImage's       *)
(* outcome as it was.                                                      *)
(***************************************************************************)
\* the images of the open dataset, in append order, and how many were handed out
SeqImages == written[ds.dspath].images
SeqReads == written[ds.dspath].reads

NextImageOf(d, fs) ==
    LET r == getImage(d, fs, <<>>) IN <<r.ok, IF r.ok THEN r.val ELSE 0>>

SequentialReading ==
    [][/\ (ret'.op = "getImage" /\ isOpen(ds) /\ ~written[ds.dspath].crashed)
              => /\ ret'.ok <=> SeqReads < Len(SeqImages)
                 /\ ret'.ok => ret'.pix = SeqImages[SeqReads + 1].pix
       /\ (ret'.op = "getImageMetadata" /\ isOpen(ds) /\ Len(SeqImages) > 0)
              => /\ ret'.ok
                 /\ ret'.str = SeqImages[Max2(SeqReads, 1)].meta
                 /\ NextImageOf(ds', disk') = NextImageOf(ds, disk)]_vars

(***************************************************************************)
(* C36: Delete(h) for a handle in the map whose path exists removes the    *)
(* dataset from disk, closing it first if it is open, and erases h, after  *)
(* which every service call with h answers invalid-parameter.  Delete on   *)
(* an unknown or null handle answers invalid-parameter, Delete of a        *)
(* dataset that is no longer on disk answers DEVICE_NO_PROPERTY_DATA, and  *)
(* both leave the map, every descriptor and the disk as they were.         *)
(***************************************************************************)
\* every status-returning service call with handle h answers invalid-parameter
HandleIsInvalid(c, fs, h) ==
    /\ SvcClose(c, fs, h).code = "DEVICE_INVALID_INPUT_PARAM"
    /\ SvcDelete(c, fs, h).code = "DEVICE_INVALID_INPUT_PARAM"
    /\ \A img \in ImageInputs, garbage \in BOOLEAN :
           SvcAddImage(c, fs, h, img[1], <<0, 0>>, img[2], garbage).code
               = "DEVICE_INVALID_INPUT_PARAM"
    /\ SvcGetImageMeta(c, fs, h, <<0, 0>>).code = "DEVICE_INVALID_INPUT_PARAM"
    /\ SvcGetSummaryMeta(c, fs, h).code = "DEVICE_INVALID_INPUT_PARAM"
    /\ SvcConfigureDimension(c, fs, h, 0, "", "").code = "DEVICE_INVALID_INPUT_PARAM"
    /\ SvcConfigureCoordinate(c, fs, h, 0, 0, "").code = "DEVICE_INVALID_INPUT_PARAM"
    /\ SvcGetNumberOfDimensions(c, fs, h).code = "DEVICE_INVALID_INPUT_PARAM"
    /\ SvcGetDimension(c, fs, h, 0, 1, 1).code = "DEVICE_INVALID_INPUT_PARAM"
    /\ SvcGetCoordinate(c, fs, h, 0, 0, 1).code = "DEVICE_INVALID_INPUT_PARAM"

DeleteLeavesAllAsItWas == cache' = cache /\ disk' = disk

IfdOffsets(d, fs) ==
    IF isOpen(d) THEN [i \in 1..Len(ActiveFile(d, fs).frames) |-> ActiveFile(d, fs).frames[i].pos]
    ELSE <<>>

IfdCacheCountsImages ==
    /\ Len(ds.io.ifdcache) = ds.imgcounter
    /\ isOpen(ds) => ds.io.ifdcache = IfdOffsets(ds, disk)

(***************************************************************************)
(* C39: every configuration the write path accepts is accepted by load: a  *)
(* dataset that was given a UID, a shape setShape took (two axes or more)  *)
(* and a pixel format setPixelFormat took, was filled by addImage and      *)
(* closed without error, loads successfully.                               *)
(***************************************************************************)
\* the dataset at path p was written with a UID that reached its header, a shape and
\* at least one image, and closed by the session that wrote it
WrittenAndClosed(p) ==
    /\ disk[p].exists
    /\ written[p].closed # <<>>
    /\ Len(written[p].closed[1].shape) >= 2
    /\ disk[p].files[1].hdr # <<>>
    /\ disk[p].files[1].hdr[1].uid = written[p].closed[1].uid
    /\ disk[p].files[1].hdr[1].uid # <<>>
    /\ Len(written[p].images) > 0
    /\ written[p].sealed = Len(written[p].images)
    /\ ~written[p].crashed

LoadAcceptsWhatWasWritten ==
    [][(ret'.op = "load" /\ ~isOpen(ds) /\ \A p \in 1..MaxDirs : WrittenAndClosed(p))
          => ret'.ok]_vars

==============================================================================
